---- MODULE Spec2Model ----
(***************************************************************************)
(* Model of flocker's control-plane replication engine:                    *)
(*   - the structural diff/patch algebra of flocker/control/_diffing.py    *)
(*     (create_diff, compose_diffs, Diff.apply over _EvolverProxy);        *)
(*   - the controller broadcast service and the agent receiver of          *)
(*     flocker/control/_protocol.py (ControlAMPService, _AgentLocator).    *)
(*                                                                         *)
(* Tree values (pyrsistent PClass / PMap / PSet and primitive leaves) are  *)
(* encoded as records of one shape, so that any two of them compare:       *)
(*   t : "leaf" | "map" | "rec" | "set" | "error"                          *)
(*   c : the class name of a "rec" (the error name of an "error")          *)
(*   v : the payload of a leaf                                             *)
(*   m : the key -> tree function of a map, the fields of a record         *)
(*   s : the elements of a set                                             *)
(***************************************************************************)
EXTENDS Integers, Sequences, FiniteSets, TLC

VARIABLES
    \* ---- diff algebra harness -------------------------------------------
    ta, tb, tc,          \* three tree values A, B, C
    step,                \* which pure function has been applied to them
    out,                 \* the value the last applied function returned
    out2,                \* a second returned value (serial application)
    patch,               \* a drawn patch: the changes of a Diff
    \* ---- Big argument harness -------------------------------------------
    big_value,           \* the bytes the wrapped Argument serialized
    strings,             \* the box's strings for the argument: whether the
                         \* key name is present and its value, and the
                         \* values of the keys name.i by i
    bstep,               \* which of toBox, fromBox has been applied
    \* ---- block device ownership (configuration store) -------------------
    ownership,           \* persistent_state.blockdevice_ownership of the
                         \* saved configuration: dataset -> block device
    saved,               \* history: the calls of configuration_service.save
                         \* set_blockdevice_id has made
    answer,              \* history: the last set_blockdevice_id call, its
                         \* number and its outcome
    \* ---- controller (ControlAMPService) --------------------------------
    connections,         \* self._connections
    pending,             \* self._connections_pending_update
    timer,               \* self._current_pending_update_delayed_call is armed
    current_command,     \* self._current_command: connection -> next_scheduled
    last_received,       \* self._last_received_generation
    config_tracker,      \* self._configuration_generation_tracker
    state_tracker,       \* self._state_generation_tracker
    config_gen,          \* which configuration configuration_service.get() returns
    state_gen,           \* which state cluster_state.as_deployment() returns
    \* ---- connections and agents (ControlAMP / AgentAMP, _AgentLocator) --
    conn_state,          \* connection -> "new" | "up" | "lost"
    calls,               \* connection -> the update commands not yet resolved
    agent,               \* connection -> the _AgentLocator's current values
    send_failures,       \* how many callRemote calls have raised so far
    served,              \* history: the connections an update was ever sent to
    resync,              \* history: the connections whose last resolved update
                         \* was a diff the agent answered without applying
    elided,              \* history: the connections an update was elided for
                         \* since their current command was sent
    followup,            \* history: per connection, "due" once a command was
                         \* acknowledged that several configuration changes
                         \* were made behind, "sent" while the next one is out
    raised,              \* history: per connection, "yes" once its callRemote
                         \* raised, "resent" while the next command is out
    env,                 \* the environment of this run: how many agents
                         \* connect and how often the two trees change
    \* ---- the reactor's time (callLater, LoopingCall) --------------------
    delayed_calls,       \* the delayed calls to _execute_update_connections:
                         \* the ticks each has left
    timeouts,            \* side -> connection -> ticks left of the protocol's
                         \* _ping_timeout (Off: fired or cancelled)
    pingers,             \* side -> connection -> ticks to the Pinger's next ping
    link,                \* connection -> "ok" | "stalled": whether what one
                         \* peer sends still reaches the other
    agent_up,            \* connection -> the AgentAMP is connected
    silence,             \* history: side -> connection -> ticks since that
                         \* side last received a message
    aborted,             \* history: side -> connection -> the abortConnection
                         \* calls its _ping_timeout has made
    settling,            \* history: the steps the controller and the agents
                         \* have taken since the last event from outside
    \* ---- the service's life ---------------------------------------------
    running,             \* stopService has not been called
    disconnect_errors    \* history: the connections whose connectionLost was
                         \* ended by an exception of disconnected()

boxVars == <<big_value, strings, bstep>>

ownVars == <<ownership, saved, answer>>

stopVars == <<running, disconnect_errors>>

\* The variables the protocol's own steps leave alone.
diffVars == <<ta, tb, tc, step, out, out2, patch, boxVars, ownVars, stopVars>>

ctrlVars == <<connections, pending, timer, current_command, last_received,
              config_tracker, state_tracker, config_gen, state_gen>>

connVars == <<conn_state, calls, agent, send_failures, served, resync, elided,
              followup, raised>>

clockVars == <<delayed_calls, timeouts, pingers, link, agent_up, silence, aborted>>

timeVars == <<clockVars, settling>>

vars == <<diffVars, ctrlVars, connVars, env, timeVars>>

-----------------------------------------------------------------------------
(* Bounds of the tree universe.                                            *)

\* Leaf payloads are 1..MaxLeaf.
MaxLeaf == 2

\* Connections are 1..MaxConns; each connects at most once.
MaxConns == 2

\* The configuration store goes through generations 0..MaxConfigGen.
MaxConfigGen == 2

\* The aggregate cluster state goes through generations 0..MaxStateGen.
MaxStateGen == 3

\* The window of a generation tracker (the service builds its trackers
\* with a window of 100; the model keeps the window small enough to fill).
TrackerWindow == 3

\* At most this many callRemote calls raise.
MaxSendFailures == 1

\* MAX_VALUE_LENGTH of AMP in bytes of the model (65535 in Twisted).
MAX_VALUE_LENGTH == 2

\* The serialized values of a Big argument have at most this many bytes.
MaxBytes == 5

\* Datasets are 1..MaxDatasets and block devices 1..MaxDevices.
MaxDatasets == 2

MaxDevices == 2

\* At most this many set_blockdevice_id commands arrive.
MaxOwnershipCalls == 3

\* PING_INTERVAL in ticks of the model's clock (30 seconds in the source).
PING_INTERVAL == 2

\* CONTROL_SERVICE_BATCHING_DELAY, one tick.
CONTROL_SERVICE_BATCHING_DELAY == 1

-----------------------------------------------------------------------------
(* Tree values.                                                            *)

NoFields == <<>>

Leaf(v) == [t |-> "leaf", c |-> "", v |-> v, m |-> NoFields, s |-> {}]

PMapOf(m) == [t |-> "map", c |-> "", v |-> 0, m |-> m, s |-> {}]

PClassOf(cls, m) == [t |-> "rec", c |-> cls, v |-> 0, m |-> m, s |-> {}]

PSetOf(s) == [t |-> "set", c |-> "", v |-> 0, m |-> NoFields, s |-> s]

\* The outcome of an operation that raised: the exception's name in c.
Raised(e) == [t |-> "error", c |-> e, v |-> 0, m |-> NoFields, s |-> {}]

\* Python's None, a primitive.
NoneValue == Leaf(0)

\* hasattr(item, 'evolver'): every pyrsistent collection, no primitive.
HasEvolver(x) == x.t \in {"map", "rec", "set"}

\* type(a) != type(b): the collection kind and, for a PClass, its class.
SameType(a, b) == a.t = b.t /\ a.c = b.c

\* A function with key k bound to value x.
MapSet(m, k, x) == [j \in (DOMAIN m) \cup {k} |-> IF j = k THEN x ELSE m[j]]

\* A function without key k.
MapRemove(m, k) == [j \in (DOMAIN m) \ {k} |-> m[j]]

\* The invariant a record class declares (checked when the record is built).
\* Class "Pair" declares that its fields x and y agree; the other classes
\* declare none.
ClassInvariant(cls, m) ==
    IF cls = "Pair"
    THEN ("x" \in DOMAIN m /\ "y" \in DOMAIN m) => m["x"] = m["y"]
    ELSE TRUE

-----------------------------------------------------------------------------
(* Big: an Argument whose serialized value travels in chunks.              *)

\* The strings of a box as far as one argument goes.
Strings(has, value, frags) == [has |-> has, value |-> value, frags |-> frags]

\* BytesIO.read called again and again: the chunks of a value in order.
RECURSIVE Chunks(_, _)
Chunks(value, size) ==
    IF value = <<>> THEN <<>>
    ELSE IF Len(value) <= size THEN <<value>>
    ELSE <<SubSeq(value, 1, size)>> \o Chunks(SubSeq(value, size + 1, Len(value)), size)

\* Big.toBox after the wrapped toBox stored value under name: name is popped
\* and the chunks are stored under name.0, name.1, ...
ToBox(value) ==
    LET chunks == Chunks(value, MAX_VALUE_LENGTH)
    IN  Strings(FALSE, <<>>, [i \in 0..(Len(chunks) - 1) |-> chunks[i + 1]])

\* The chunks name.counter, name.counter + 1, ... up to the first missing.
RECURSIVE Reassembled(_, _)
Reassembled(frags, counter) ==
    IF counter \notin DOMAIN frags THEN <<>>
    ELSE frags[counter] \o Reassembled(frags, counter + 1)

\* Big.fromBox before it calls the wrapped fromBox: strings[name] is
\* assigned in the loop, after each chunk that was found.
FromBox(st) ==
    IF 0 \in DOMAIN st.frags
    THEN Strings(TRUE, Reassembled(st.frags, 0), st.frags)
    ELSE st

\* No argument is being serialized.
BoxIdle ==
    /\ big_value = <<>>
    /\ strings = Strings(FALSE, <<>>, <<>>)
    /\ bstep = "idle"

-----------------------------------------------------------------------------
(* Block device ownership bindings.                                        *)

Datasets == 1..MaxDatasets

Devices == 1..MaxDevices

\* BlockDeviceOwnership.record_ownership: the bindings with one more, the
\* bindings as they are when the binding is recorded already, or
\* DatasetAlreadyOwned when the dataset is bound to another block device.
record_ownership(own, dataset_id, blockdevice_id) ==
    IF dataset_id \notin DOMAIN own
    THEN [raised |-> FALSE, ownership |-> MapSet(own, dataset_id, blockdevice_id)]
    ELSE IF own[dataset_id] # blockdevice_id
    THEN [raised |-> TRUE, ownership |-> own]
    ELSE [raised |-> FALSE, ownership |-> own]

\* set_blockdevice_id as it would be without its comparison.
SaveAlways(own, dataset_id, blockdevice_id) == TRUE

\* set_blockdevice_id: current_val != blockdevice_id, where current_val is
\* None for a dataset without a binding.
SaveNeeded(own, dataset_id, blockdevice_id) ==
    dataset_id \notin DOMAIN own \/ own[dataset_id] # blockdevice_id

\* No set_blockdevice_id command has arrived.
OwnershipIdle ==
    /\ ownership = NoFields
    /\ saved = 0
    /\ answer = [n |-> 0, dataset_id |-> 0, blockdevice_id |-> 0, result |-> "none"]

\* The service is running and no connectionLost has failed.
ServiceRunning ==
    /\ running = TRUE
    /\ disconnect_errors = {}

-----------------------------------------------------------------------------
(* Patch operations: _Set, _Remove, _Add.                                  *)
(* item of a _Remove is a mapping key (iskey) or a set element (value).    *)

SetOp(path, value) ==
    [op |-> "SET", path |-> path, value |-> value, iskey |-> FALSE, key |-> ""]

RemoveKeyOp(path, k) ==
    [op |-> "REMOVE", path |-> path, value |-> NoneValue, iskey |-> TRUE, key |-> k]

RemoveItemOp(path, x) ==
    [op |-> "REMOVE", path |-> path, value |-> x, iskey |-> FALSE, key |-> ""]

AddOp(path, x) ==
    [op |-> "ADD", path |-> path, value |-> x, iskey |-> FALSE, key |-> ""]

\* The elements of a finite set in the (deterministic) order of iteration.
RECURSIVE SeqOfSet(_)
SeqOfSet(S) ==
    IF S = {} THEN <<>>
    ELSE LET x == CHOOSE y \in S : TRUE
         IN <<x>> \o SeqOfSet(S \ {x})

\* Concatenation of a sequence of sequences.
RECURSIVE Flatten(_)
Flatten(ss) == IF ss = <<>> THEN <<>> ELSE Head(ss) \o Flatten(Tail(ss))

-----------------------------------------------------------------------------
(* create_diff.                                                            *)

\* _create_diffs_for_sets as it would be if its second loop ran over the
\* second set whole.
CreateDiffsForSetsAddAll(current_path, set_a, set_b) ==
    LET removed == SeqOfSet(set_a \ set_b)
        added   == SeqOfSet(set_b)
    IN  [i \in 1..Len(removed) |-> RemoveItemOp(current_path, removed[i])]
        \o [i \in 1..Len(added) |-> AddOp(current_path, added[i])]

CreateDiffsForSets(current_path, set_a, set_b) ==
    LET removed == SeqOfSet(set_a \ set_b)
        added   == SeqOfSet(set_b \ set_a)
    IN  [i \in 1..Len(removed) |-> RemoveItemOp(current_path, removed[i])]
        \o [i \in 1..Len(added) |-> AddOp(current_path, added[i])]

RECURSIVE CreateDiffsFor(_, _, _)
\* _create_diffs_for_mappings as it would be without its last loop, the one
\* over the keys that are gone.
CreateDiffsForMappingsKept(current_path, mapping_a, mapping_b) ==
    LET a_keys == DOMAIN mapping_a
        b_keys == DOMAIN mapping_b
        common == SeqOfSet({k \in a_keys \cap b_keys : mapping_a[k] # mapping_b[k]})
        fresh  == SeqOfSet(b_keys \ a_keys)
    IN  Flatten([i \in 1..Len(common) |->
                    CreateDiffsFor(Append(current_path, common[i]),
                                   mapping_a[common[i]], mapping_b[common[i]])])
        \o [i \in 1..Len(fresh) |->
                SetOp(Append(current_path, fresh[i]), mapping_b[fresh[i]])]

CreateDiffsForMappings(current_path, mapping_a, mapping_b) ==
    LET a_keys == DOMAIN mapping_a
        b_keys == DOMAIN mapping_b
        common == SeqOfSet({k \in a_keys \cap b_keys : mapping_a[k] # mapping_b[k]})
        fresh  == SeqOfSet(b_keys \ a_keys)
        gone   == SeqOfSet(a_keys \ b_keys)
    IN  Flatten([i \in 1..Len(common) |->
                    CreateDiffsFor(Append(current_path, common[i]),
                                   mapping_a[common[i]], mapping_b[common[i]])])
        \o [i \in 1..Len(fresh) |->
                SetOp(Append(current_path, fresh[i]), mapping_b[fresh[i]])]
        \o [i \in 1..Len(gone) |-> RemoveKeyOp(current_path, gone[i])]

\* _create_diffs_for as it would be without its test for equal objects.
CreateDiffsForUnequal(current_path, subobj_a, subobj_b) ==
    IF ~SameType(subobj_a, subobj_b) THEN <<SetOp(current_path, subobj_b)>>
    ELSE IF subobj_a.t = "rec"
        THEN CreateDiffsForMappings(current_path, subobj_a.m, subobj_b.m)
    ELSE IF subobj_a.t = "map"
        THEN CreateDiffsForMappings(current_path, subobj_a.m, subobj_b.m)
    ELSE IF subobj_a.t = "set"
        THEN CreateDiffsForSets(current_path, subobj_a.s, subobj_b.s)
    ELSE <<SetOp(current_path, subobj_b)>>

CreateDiffsFor(current_path, subobj_a, subobj_b) ==
    IF subobj_a = subobj_b THEN <<>>
    ELSE IF ~SameType(subobj_a, subobj_b) THEN <<SetOp(current_path, subobj_b)>>
    ELSE IF subobj_a.t = "rec"
        THEN CreateDiffsForMappings(current_path, subobj_a.m, subobj_b.m)
    ELSE IF subobj_a.t = "map"
        THEN CreateDiffsForMappings(current_path, subobj_a.m, subobj_b.m)
    ELSE IF subobj_a.t = "set"
        THEN CreateDiffsForSets(current_path, subobj_a.s, subobj_b.s)
    ELSE <<SetOp(current_path, subobj_b)>>

\* A Diff is modelled by its vector of changes.
create_diff(object_a, object_b) == CreateDiffsFor(<<>>, object_a, object_b)

compose_diffs(diffs) == Flatten(diffs)

-----------------------------------------------------------------------------
(* pyrsistent evolvers.  An evolver is modelled by the working copy of the  *)
(* collection it was taken from.  The outcome of an evolver call is the    *)
(* new working copy, or Raised(e).                                         *)

\* evolver.set(key, value): PMap and PClass evolvers; a PSet evolver has none.
EvolverSet(ev, key, value) ==
    IF ev.t \in {"map", "rec"} THEN [ev EXCEPT !.m = MapSet(ev.m, key, value)]
    ELSE Raised("AttributeError")

\* evolver.add(item): PSet evolvers only.
EvolverAdd(ev, item) ==
    IF ev.t = "set" THEN [ev EXCEPT !.s = ev.s \cup {item}]
    ELSE Raised("AttributeError")

\* evolver.remove(key) of a mapping key: KeyError (PMap) or AttributeError
\* (PClass) when the key is absent.
EvolverRemoveKey(ev, key) ==
    IF ev.t \in {"map", "rec"} /\ key \in DOMAIN ev.m
        THEN [ev EXCEPT !.m = MapRemove(ev.m, key)]
    ELSE IF ev.t = "rec" THEN Raised("AttributeError")
    ELSE Raised("KeyError")

\* evolver.remove(item) of a set element: KeyError when it is absent.
EvolverRemoveItem(ev, item) ==
    IF ev.t = "set" /\ item \in ev.s THEN [ev EXCEPT !.s = ev.s \ {item}]
    ELSE IF ev.t = "rec" THEN Raised("AttributeError")
    ELSE Raised("KeyError")

\* evolver.persistent(): building a PClass runs its invariant.
EvolverPersistent(ev) ==
    IF ev.t = "rec" /\ ~ClassInvariant(ev.c, ev.m) THEN Raised("InvariantException")
    ELSE ev

-----------------------------------------------------------------------------
(* _EvolverProxy.                                                          *)
(*   err      : "" or the name of the exception an operation raised        *)
(*   original : self._original                                             *)
(*   evolver  : self._evolver                                              *)
(*   children : self._children for segments that are keys or field names   *)
(*   items    : the keys of self._children that are set items; the proxy   *)
(*              of an item is never walked (a set has no path segments),   *)
(*              so it commits to the item itself                           *)

FailedProxy(e) ==
    [err |-> e, original |-> NoneValue, evolver |-> NoneValue,
     children |-> NoFields, items |-> {}]

\* _EvolverProxy.__init__: original.evolver() raises for a primitive.
EvolverProxy(original) ==
    IF HasEvolver(original)
    THEN [err |-> "", original |-> original, evolver |-> original,
          children |-> NoFields, items |-> {}]
    ELSE FailedProxy("AttributeError")

\* _EvolverProxy._child: a staged child, or a new proxy of the ORIGINAL's
\* value at the segment (pyrsistent's _get: item access on a PMap raising
\* KeyError, attribute access on a PClass or a PSet raising AttributeError).
ProxyChild(proxy, segment) ==
    IF segment \in DOMAIN proxy.children THEN proxy.children[segment]
    ELSE IF proxy.original.t \in {"map", "rec"} /\ segment \in DOMAIN proxy.original.m
        THEN EvolverProxy(proxy.original.m[segment])
    ELSE IF proxy.original.t = "map" THEN FailedProxy("KeyError")
    ELSE FailedProxy("AttributeError")

\* The staging of an evolver call's outcome on a proxy.
WithEvolver(proxy, ev) ==
    IF ev.t = "error" THEN FailedProxy(ev.c) ELSE [proxy EXCEPT !.evolver = ev]

\* _EvolverProxy.set
ProxySet(proxy, key, item) ==
    IF HasEvolver(item)
    THEN [proxy EXCEPT !.children = MapSet(proxy.children, key, EvolverProxy(item))]
    ELSE WithEvolver(proxy, EvolverSet(proxy.evolver, key, item))

\* _EvolverProxy.add
ProxyAdd(proxy, item) ==
    IF HasEvolver(item)
    THEN [proxy EXCEPT !.items = proxy.items \cup {item}]
    ELSE WithEvolver(proxy, EvolverAdd(proxy.evolver, item))

\* _EvolverProxy.remove: the staged child is dropped, and a KeyError of the
\* evolver is swallowed (any other exception propagates).
ProxyRemove(proxy, c) ==
    LET popped == IF c.iskey
                  THEN [proxy EXCEPT !.children = MapRemove(proxy.children, c.key)]
                  ELSE [proxy EXCEPT !.items = proxy.items \ {c.value}]
        ev == IF c.iskey THEN EvolverRemoveKey(proxy.evolver, c.key)
              ELSE EvolverRemoveItem(proxy.evolver, c.value)
    IN  IF ev.t = "error" /\ ev.c = "KeyError" THEN popped
        ELSE WithEvolver(popped, ev)

\* The operation a change performs on the proxy its path leads to.
ChangeOperation(proxy, c) ==
    IF c.op = "SET" THEN ProxySet(proxy, c.path[Len(c.path)], c.value)
    ELSE IF c.op = "ADD" THEN ProxyAdd(proxy, c.value)
    ELSE ProxyRemove(proxy, c)

\* _EvolverProxy.transform: walk the path, then operate on the target.
RECURSIVE ProxyTransform(_, _, _)
ProxyTransform(proxy, path, c) ==
    IF path = <<>> THEN ChangeOperation(proxy, c)
    ELSE LET child == ProxyChild(proxy, Head(path))
         IN  IF child.err # "" THEN FailedProxy(child.err)
             ELSE LET walked == ProxyTransform(child, Tail(path), c)
                  IN  IF walked.err # "" THEN FailedProxy(walked.err)
                      ELSE [proxy EXCEPT
                              !.children = MapSet(proxy.children, Head(path), walked)]

\* _Set.apply / _Remove.apply / _Add.apply on a proxy.
ChangeApply(c, proxy) ==
    IF c.op = "SET"
    THEN ProxyTransform(proxy, SubSeq(c.path, 1, Len(c.path) - 1), c)
    ELSE ProxyTransform(proxy, c.path, c)

\* _EvolverProxy.commit: the children are committed first and written over
\* whatever the evolver holds at their segments; then the evolver persists.
RECURSIVE ProxyCommit(_)
ProxyCommit(proxy) ==
    LET segs == DOMAIN proxy.children
        kids == [k \in segs |-> ProxyCommit(proxy.children[k])]
        bad  == {k \in segs : kids[k].t = "error"}
        ev   == proxy.evolver
    IN  IF bad # {} THEN kids[CHOOSE k \in bad : TRUE]
        ELSE IF ev.t \in {"map", "rec"}
            THEN IF proxy.items # {} THEN Raised("TypeError")
                 ELSE EvolverPersistent(
                        [ev EXCEPT !.m = [k \in (DOMAIN ev.m) \cup segs |->
                                            IF k \in segs THEN kids[k] ELSE ev.m[k]]])
        ELSE IF segs # {} THEN Raised("TypeError")
        ELSE EvolverPersistent([ev EXCEPT !.s = ev.s \cup proxy.items])

\* The loop of Diff.apply over the changes.
RECURSIVE ApplyChanges(_, _)
\* The loop as it would be if a SET of the root kept the children staged so
\* far instead of starting from a new proxy.
ApplyChangesStaged(proxy, changes) ==
    IF changes = <<>> \/ proxy.err # "" THEN proxy
    ELSE LET c == Head(changes)
             next == IF Len(c.path) > 0 THEN ChangeApply(c, proxy)
                     ELSE IF c.op = "SET"
                         THEN [EvolverProxy(c.value) EXCEPT
                                 !.children = proxy.children]
                     ELSE FailedProxy("AssertionError")
         IN  ApplyChanges(next, Tail(changes))

ApplyChanges(proxy, changes) ==
    IF changes = <<>> \/ proxy.err # "" THEN proxy
    ELSE LET c == Head(changes)
             next == IF Len(c.path) > 0 THEN ChangeApply(c, proxy)
                     ELSE IF c.op = "SET" THEN EvolverProxy(c.value)
                     ELSE FailedProxy("AssertionError")
         IN  ApplyChanges(next, Tail(changes))

\* Diff.apply: the committed tree, or Raised(e).
DiffApply(changes, obj) ==
    LET proxy == ApplyChanges(EvolverProxy(obj), changes)
    IN  IF proxy.err # "" THEN Raised(proxy.err) ELSE ProxyCommit(proxy)


-----------------------------------------------------------------------------
(* The bounded universe of tree values the diff algebra is applied to.     *)

\* All functions from a subset of keys to values.
PartialMaps(keys, values) == UNION {[S -> values] : S \in SUBSET keys}

Leaves == {Leaf(i) : i \in 1..MaxLeaf}

\* Innermost values: primitives, mappings of primitives, sets of primitives.
Inner1 ==
    Leaves \cup {PMapOf(m) : m \in PartialMaps({"x"}, Leaves)}
           \cup {PSetOf(s) : s \in SUBSET Leaves}

\* One more level of mapping.
Inner2 == Inner1 \cup {PMapOf(m) : m \in PartialMaps({"a"}, Inner1)}

\* The values of the end-to-end scenarios and a few shapes the generated
\* universe lacks (two keys at one level, a set of collections).
ScenarioTrees ==
    { PClassOf("Root", [f \in {"f"} |->
          PMapOf([k \in {"a"} |-> PClassOf("App", [g \in {"image"} |-> Leaf(i)])])])
        : i \in 1..2 }
    \cup { PMapOf(m) : m \in PartialMaps({"a", "b"}, {Leaf(1), PMapOf(NoFields)}) }
    \cup { PClassOf("Root", [f \in {"f"} |-> PSetOf(s)])
        : s \in SUBSET {Leaf(1), PMapOf([k \in {"x"} |-> Leaf(1)]), PSetOf({})} }

\* Root values: records, mappings, sets and primitives.
Roots ==
    {PClassOf("Root", [f \in {"f"} |-> x]) : x \in Inner2}
    \cup {PMapOf(m) : m \in PartialMaps({"f"}, Inner2)}
    \cup {PSetOf(s) : s \in SUBSET Leaves}
    \cup Leaves
    \cup ScenarioTrees

-----------------------------------------------------------------------------
(* Generations of the configuration and of the cluster state.              *)
(* The configuration store and the cluster state service are external:     *)
(* the model lets each advance along a chain of distinct values.           *)

Conns == 1..MaxConns

\* Deployment: generation i holds the nodes 1..i.
ConfigValue(i) ==
    PClassOf("Deployment", [f \in {"nodes"} |-> PSetOf({Leaf(j) : j \in 1..i})])

\* DeploymentState: generation 0 knows no node; afterwards node "n" reports
\* a mapping of manifestations, or (every second generation) a primitive in
\* its place, as a NodeState does for a field it has no knowledge of.
StateValue(i) ==
    PClassOf("DeploymentState", [f \in {"nodes"} |->
        IF i = 0 THEN PMapOf(NoFields)
        ELSE PMapOf([n \in {"n"} |->
                IF i % 2 = 0 THEN Leaf(i)
                ELSE PMapOf([k \in {"m"} |-> Leaf(i)])])])

\* make_generation_hash: a content hash, taken to be free of collisions.
make_generation_hash(x) == [digest |-> x]

\* The None a generation field holds before any value was adopted.
NoHash == [digest |-> Raised("None")]

-----------------------------------------------------------------------------
(* GenerationTracker: the latest value, and for each earlier resident      *)
(* generation its hash and the diff to the generation after it.            *)

EmptyTracker == [has |-> FALSE, latest |-> NoneValue, latest_hash |-> NoHash,
                 queue |-> <<>>]

\* The oldest entries are evicted while the window is exceeded.
RECURSIVE FlushQueue(_)
FlushQueue(q) == IF Len(q) + 1 > TrackerWindow THEN FlushQueue(Tail(q)) ELSE q

insert_latest(tr, value) ==
    IF tr.has /\ make_generation_hash(value) = tr.latest_hash THEN tr
    ELSE [has |-> TRUE, latest |-> value,
          latest_hash |-> make_generation_hash(value),
          queue |-> IF tr.has
                    THEN FlushQueue(Append(tr.queue,
                            [hash |-> tr.latest_hash,
                             diff |-> create_diff(tr.latest, value)]))
                    ELSE <<>>]

\* The outcome of get_diff_from_hash_to_latest: found is FALSE for None.
NoDiff == [found |-> FALSE, changes |-> <<>>]

get_diff_from_hash_to_latest(tr, h) ==
    IF tr.has /\ h = tr.latest_hash THEN [found |-> TRUE, changes |-> <<>>]
    ELSE LET at == {i \in 1..Len(tr.queue) : tr.queue[i].hash = h}
         IN  IF at = {} THEN NoDiff
             ELSE LET from == CHOOSE i \in at : \A j \in at : j <= i
                  IN  [found |-> TRUE,
                       changes |-> compose_diffs(
                           [i \in 1..(Len(tr.queue) - from + 1) |->
                               tr.queue[from + i - 1].diff])]

-----------------------------------------------------------------------------
(* The controller: ControlAMPService.                                      *)

\* _ConfigAndStateGeneration() as the defaultdict creates it.
NoGenerations == [config_hash |-> NoHash, state_hash |-> NoHash]

\* self._last_received_generation[connection]: a defaultdict read.
LastReceived(lr, c) == IF c \in DOMAIN lr THEN lr[c] ELSE NoGenerations

\* _schedule_update(connections): the pending set after the call.
SchedulePending(pend, conns) == pend \cup conns

\* _schedule_update(connections): whether a delayed call is armed after it.
ScheduleTimer(armed, pend, conns) == armed \/ (pend \cup conns) # {}

\* _update_connection as it would be if one patch were enough for a diff.
UpdateCommandEither(ctr, str, last) ==
    LET configuration_diff == get_diff_from_hash_to_latest(ctr, last.config_hash)
        state_diff == get_diff_from_hash_to_latest(str, last.state_hash)
    IN  IF configuration_diff.found \/ state_diff.found
        THEN [kind |-> "diff",
              configuration |-> NoneValue,
              configuration_diff |-> configuration_diff.changes,
              start_configuration_generation |-> last.config_hash,
              configuration_generation |-> ctr.latest_hash,
              state |-> NoneValue,
              state_diff |-> state_diff.changes,
              start_state_generation |-> last.state_hash,
              state_generation |-> str.latest_hash]
        ELSE [kind |-> "full",
              configuration |-> ctr.latest,
              configuration_diff |-> <<>>,
              start_configuration_generation |-> NoHash,
              configuration_generation |-> ctr.latest_hash,
              state |-> str.latest,
              state_diff |-> <<>>,
              start_state_generation |-> NoHash,
              state_generation |-> str.latest_hash]

\* The command _update_connection builds for a connection whose last
\* acknowledged generations are last, from the two (updated) trackers.
UpdateCommand(ctr, str, last) ==
    LET configuration_diff == get_diff_from_hash_to_latest(ctr, last.config_hash)
        state_diff == get_diff_from_hash_to_latest(str, last.state_hash)
    IN  IF configuration_diff.found /\ state_diff.found
        THEN [kind |-> "diff",
              configuration |-> NoneValue,
              configuration_diff |-> configuration_diff.changes,
              start_configuration_generation |-> last.config_hash,
              configuration_generation |-> ctr.latest_hash,
              state |-> NoneValue,
              state_diff |-> state_diff.changes,
              start_state_generation |-> last.state_hash,
              state_generation |-> str.latest_hash]
        ELSE [kind |-> "full",
              configuration |-> ctr.latest,
              configuration_diff |-> <<>>,
              start_configuration_generation |-> NoHash,
              configuration_generation |-> ctr.latest_hash,
              state |-> str.latest,
              state_diff |-> <<>>,
              start_state_generation |-> NoHash,
              state_generation |-> str.latest_hash]

\* An unresolved callRemote: the command, how far it got, the response (or
\* the failure) once the agent has answered, whether the agent got as far
\* as applying it, and the number of re-schedule continuations
\* _delayed_update_connection attached to its Deferred.
NewCall(cmd) ==
    [cmd |-> cmd, phase |-> "sent",
     current_configuration_generation |-> NoHash,
     current_state_generation |-> NoHash,
     applied |-> FALSE,
     conts |-> 0]

\* can_update as it would be if the inflight command were not looked at.
CanUpdateAll(conns) == conns

\* The three groups of _send_state_to_connections.
CanUpdate(conns) == {c \in conns : c \notin DOMAIN current_command}

\* delayed_update as it would be if next_scheduled were not looked at.
DelayedUpdateAgain(conns) == {c \in conns : c \in DOMAIN current_command}

DelayedUpdate(conns) ==
    {c \in conns : c \in DOMAIN current_command /\ ~current_command[c]}

ElidedUpdate(conns) ==
    {c \in conns : c \in DOMAIN current_command /\ current_command[c]}

\* _delayed_update_connection as it would be without its addCallback.
AttachNothing(cs) == cs

\* _delayed_update_connection: one more continuation on the Deferred of the
\* connection's current command (the last one sent).
AttachContinuation(cs) ==
    [cs EXCEPT ![Len(cs)].conts = cs[Len(cs)].conts + 1]

\* connected.  Connections are numbered in the order they are made.
Connect(c) ==
    /\ c <= env.conns
    /\ conn_state[c] = "new"
    /\ \A b \in 1..(c - 1) : conn_state[b] # "new"
    /\ conn_state' = [conn_state EXCEPT ![c] = "up"]
    /\ connections' = connections \cup {c}
    /\ pending' = SchedulePending(pending, {c})
    /\ timer' = ScheduleTimer(timer, pending, {c})
    /\ UNCHANGED <<current_command, last_received, config_tracker, state_tracker,
                   config_gen, state_gen, calls, agent, send_failures, served,
                   resync, elided, followup, raised, diffVars, env>>

\* node_changed: an agent reported node state; the aggregate is folded (and
\* may come out as it was), then a broadcast is scheduled.
NodeChanged(c) ==
    /\ conn_state[c] = "up"
    /\ \E g \in {state_gen, state_gen + 1} : g <= env.state /\ state_gen' = g
    /\ pending' = SchedulePending(pending, connections)
    /\ timer' = ScheduleTimer(timer, pending, connections)
    /\ UNCHANGED <<connections, current_command, last_received, config_tracker,
                   state_tracker, config_gen, connVars, diffVars, env>>

\* The configuration store saved a new configuration and called its
\* observer, _schedule_broadcast_update.
ConfigurationChanged ==
    /\ config_gen < env.config
    /\ config_gen' = config_gen + 1
    /\ pending' = SchedulePending(pending, connections)
    /\ timer' = ScheduleTimer(timer, pending, connections)
    /\ UNCHANGED <<connections, current_command, last_received, config_tracker,
                   state_tracker, state_gen, connVars, diffVars, env>>

\* _update_connection as it would be if the _UpdateState of a callRemote
\* that raised stayed in _current_command.
CurrentCommandKept(cc, can_update, delayed_update, failed) ==
    [c \in (DOMAIN cc) \cup can_update |->
        IF c \in can_update THEN FALSE
        ELSE IF c \in delayed_update THEN TRUE
        ELSE cc[c]]

\* _current_command after a pass: an _UpdateState for every connection a
\* command went out to (finished_update has already deleted that of a
\* callRemote that raised), next_scheduled set for the delayed ones.
CurrentCommandAfter(cc, can_update, delayed_update, failed) ==
    [c \in ((DOMAIN cc) \cup can_update) \ failed |->
        IF c \in can_update THEN FALSE
        ELSE IF c \in delayed_update THEN TRUE
        ELSE cc[c]]

\* _execute_update_connections, _send_state_to_connections and, for every
\* connection that can be updated, _update_connection.  failed are the
\* connections whose callRemote raises: maybeDeferred turns that into a
\* failed Deferred, so finished_update(None) runs at once.
ExecuteUpdateConnections(failed) ==
    LET connections_to_update == pending
        can_update == CanUpdate(connections_to_update)
        delayed_update == DelayedUpdate(connections_to_update)
        configuration == ConfigValue(config_gen)
        state == StateValue(state_gen)
        ctr == IF can_update = {} THEN config_tracker
               ELSE insert_latest(config_tracker, configuration)
        str == IF can_update = {} THEN state_tracker
               ELSE insert_latest(state_tracker, state)
    IN  /\ timer
        /\ failed \subseteq can_update
        /\ send_failures + Cardinality(failed) <= MaxSendFailures
        /\ pending' = {}
        /\ timer' = FALSE
        /\ config_tracker' = ctr
        /\ state_tracker' = str
        /\ last_received' =
              [c \in (DOMAIN last_received) \cup can_update |->
                  LastReceived(last_received, c)]
        /\ current_command' =
              CurrentCommandAfter(current_command, can_update, delayed_update, failed)
        /\ calls' =
              [c \in Conns |->
                  IF c \in can_update \ failed
                  THEN Append(calls[c],
                         NewCall(UpdateCommand(ctr, str, LastReceived(last_received, c))))
                  ELSE IF c \in delayed_update THEN AttachContinuation(calls[c])
                  ELSE calls[c]]
        /\ send_failures' = send_failures + Cardinality(failed)
        /\ served' = served \cup (can_update \ failed)
        /\ resync' = resync \ (can_update \ failed)
        /\ elided' = elided \cup ElidedUpdate(connections_to_update)
        /\ raised' = [c \in Conns |->
              IF c \in failed THEN "yes"
              ELSE IF c \in can_update
              THEN (IF raised[c] = "yes" THEN "resent" ELSE "no")
              ELSE raised[c]]
        /\ followup' = [c \in Conns |->
              IF c \in can_update
              THEN (IF followup[c] = "due" /\ c \notin failed THEN "sent" ELSE "none")
              ELSE followup[c]]
        /\ UNCHANGED <<connections, config_gen, state_gen, conn_state, agent,
                       diffVars, env>>

TimerFires == \E failed \in SUBSET pending : ExecuteUpdateConnections(failed)

-----------------------------------------------------------------------------
(* The agent: _AgentLocator.                                               *)

\* _AgentLocator.__init__; notified tells whether the last command handled
\* called agent.cluster_updated.
NewAgent ==
    [configuration |-> NoneValue, configuration_generation |-> NoHash,
     state |-> NoneValue, state_generation |-> NoHash, notified |-> FALSE]

\* _update_cluster as it would be if _set_state kept the old state hash.
UpdateClusterStaleHash(ag, configuration, configuration_generation, state, state_generation) ==
    LET candidate_config == make_generation_hash(configuration)
        candidate_state == make_generation_hash(state)
        with_config == [ag EXCEPT !.configuration = configuration,
                                  !.configuration_generation = candidate_config]
    IN  IF candidate_config # configuration_generation
        THEN [ok |-> FALSE, applied |-> TRUE, agent |-> ag]
        ELSE IF candidate_state # state_generation
        THEN [ok |-> FALSE, applied |-> TRUE, agent |-> with_config]
        ELSE [ok |-> TRUE, applied |-> TRUE,
              agent |-> [with_config EXCEPT !.state = state,
                                            !.notified = TRUE]]

\* _update_cluster as it would be if _set_state stored the state before it
\* compared the hashes.
UpdateClusterAssignFirst(ag, configuration, configuration_generation, state, state_generation) ==
    LET candidate_config == make_generation_hash(configuration)
        candidate_state == make_generation_hash(state)
        with_config == [ag EXCEPT !.configuration = configuration,
                                  !.configuration_generation = candidate_config]
    IN  IF candidate_config # configuration_generation
        THEN [ok |-> FALSE, applied |-> TRUE, agent |-> ag]
        ELSE IF candidate_state # state_generation
        THEN [ok |-> FALSE, applied |-> TRUE,
              agent |-> [with_config EXCEPT !.state = state]]
        ELSE [ok |-> TRUE, applied |-> TRUE,
              agent |-> [with_config EXCEPT !.state = state,
                                            !.state_generation = candidate_state,
                                            !.notified = TRUE]]

\* _update_cluster: _set_configuration, then _set_state, then _update_agent.
\* A hash that does not verify raises ValueError where it is found.
UpdateCluster(ag, configuration, configuration_generation, state, state_generation) ==
    LET candidate_config == make_generation_hash(configuration)
        candidate_state == make_generation_hash(state)
        with_config == [ag EXCEPT !.configuration = configuration,
                                  !.configuration_generation = candidate_config]
    IN  IF candidate_config # configuration_generation
        THEN [ok |-> FALSE, applied |-> TRUE, agent |-> ag]
        ELSE IF candidate_state # state_generation
        THEN [ok |-> FALSE, applied |-> TRUE, agent |-> with_config]
        ELSE [ok |-> TRUE, applied |-> TRUE,
              agent |-> [with_config EXCEPT !.state = state,
                                            !.state_generation = candidate_state,
                                            !.notified = TRUE]]

\* The ClusterStatusCommand responder.
ClusterUpdated(ag, cmd) ==
    UpdateCluster(ag, cmd.configuration, cmd.configuration_generation,
                  cmd.state, cmd.state_generation)

\* cluster_updated_diff as it would be if it compared the start
\* configuration generation only.
ClusterUpdatedDiffFromConfiguration(ag, cmd) ==
    IF cmd.start_configuration_generation # ag.configuration_generation
    THEN [ok |-> TRUE, applied |-> FALSE, agent |-> ag]
    ELSE LET new_configuration == DiffApply(cmd.configuration_diff, ag.configuration)
             new_state == DiffApply(cmd.state_diff, ag.state)
         IN  IF new_configuration.t = "error" \/ new_state.t = "error"
             THEN [ok |-> FALSE, applied |-> TRUE, agent |-> ag]
             ELSE UpdateCluster(ag, new_configuration, cmd.configuration_generation,
                                new_state, cmd.state_generation)

\* The ClusterStatusDiffCommand responder.
ClusterUpdatedDiff(ag, cmd) ==
    IF cmd.start_configuration_generation # ag.configuration_generation
    THEN [ok |-> TRUE, applied |-> FALSE, agent |-> ag]
    ELSE IF cmd.start_state_generation # ag.state_generation
    THEN [ok |-> TRUE, applied |-> FALSE, agent |-> ag]
    ELSE LET new_configuration == DiffApply(cmd.configuration_diff, ag.configuration)
             new_state == DiffApply(cmd.state_diff, ag.state)
         IN  IF new_configuration.t = "error" \/ new_state.t = "error"
             THEN [ok |-> FALSE, applied |-> TRUE, agent |-> ag]
             ELSE UpdateCluster(ag, new_configuration, cmd.configuration_generation,
                                new_state, cmd.state_generation)

\* The responder a command is dispatched to.
Respond(ag, cmd) ==
    IF cmd.kind = "full" THEN ClusterUpdated(ag, cmd) ELSE ClusterUpdatedDiff(ag, cmd)

\* The commands of a connection the agent has not handled yet.
Unhandled(c) == {i \in 1..Len(calls[c]) : calls[c][i].phase = "sent"}

\* The agent handles the oldest command it has not handled yet, and its
\* response (the current generations, or the failure) is on its way.
AgentHandles(c) ==
    /\ conn_state[c] = "up"
    /\ Unhandled(c) # {}
    /\ LET i == CHOOSE j \in Unhandled(c) : \A k \in Unhandled(c) : j <= k
           r == Respond([agent[c] EXCEPT !.notified = FALSE], calls[c][i].cmd)
       IN  /\ agent' = [agent EXCEPT ![c] = r.agent]
           /\ calls' = [calls EXCEPT ![c][i] =
                 [@ EXCEPT !.phase = IF r.ok THEN "ok" ELSE "error",
                           !.applied = r.applied,
                           !.current_configuration_generation =
                                r.agent.configuration_generation,
                           !.current_state_generation = r.agent.state_generation]]
    /\ UNCHANGED <<ctrlVars, conn_state, send_failures, served, resync, elided,
                   followup, raised, diffVars, env>>

-----------------------------------------------------------------------------
(* The controller resolving an update.                                     *)

\* finished_update as it would be if it compared the configuration hash only.
FellBehindInConfiguration(call) ==
    config_tracker.latest_hash # call.current_configuration_generation

\* finished_update: whether it schedules another update.
FellBehind(call) ==
    \/ config_tracker.latest_hash # call.current_configuration_generation
    \/ state_tracker.latest_hash # call.current_state_generation

\* finished_update as it would be if an agent that is behind were recorded
\* as having acknowledged nothing.
AcknowledgedOrForgotten(call) ==
    IF FellBehind(call) THEN NoGenerations
    ELSE [config_hash |-> call.current_configuration_generation,
          state_hash |-> call.current_state_generation]

\* What finished_update records for a successful response.
Acknowledged(call) ==
    [config_hash |-> call.current_configuration_generation,
     state_hash |-> call.current_state_generation]

\* finished_update as it would be if it recorded the hashes of a failed
\* response too.
RecordAlways(lr, c, call) == MapSet(lr, c, Acknowledged(call))

\* finished_update as it would be if the continuation of a follow-up ran
\* before it and the hashes of such a response were not yet recorded.
FinishedUpdateAfterFollowUp(lr, c, call) ==
    IF call.phase = "ok" /\ call.conts = 0 THEN MapSet(lr, c, Acknowledged(call))
    ELSE lr

\* finished_update: the remembered generations after it ran for the resolved
\* command of a connection (a failure reaches it as None).
FinishedUpdateRecord(lr, c, call) ==
    IF call.phase = "ok" THEN MapSet(lr, c, Acknowledged(call)) ELSE lr

\* History: the configuration has changed at least twice since the command
\* was built.
ManyConfigurationChanges(call) ==
    \E i \in 0..MaxConfigGen :
        /\ call.cmd.configuration_generation = make_generation_hash(ConfigValue(i))
        /\ config_gen >= i + 2

\* finished_update as it would be if it scheduled another update after
\* every response, whatever the hashes in it.
ScheduledAfterEveryResponse(call) ==
    call.phase = "ok" \/ call.conts > 0

\* Whether the callbacks of a resolved command call _schedule_update:
\* finished_update for an agent that is behind, and every continuation.
ScheduledAgain(call) ==
    (call.phase = "ok" /\ FellBehind(call)) \/ call.conts > 0

\* The response to the oldest unresolved command of a connection arrives:
\* the errback turns a failure into None, finished_update runs, then every
\* continuation _delayed_update_connection attached.
ResponseArrives(c) ==
    /\ conn_state[c] = "up"
    /\ calls[c] # <<>>
    /\ Head(calls[c]).phase # "sent"
    /\ LET call == Head(calls[c])
           response == call.phase = "ok"
           again == ScheduledAgain(call)
       IN  /\ calls' = [calls EXCEPT ![c] = Tail(@)]
           /\ current_command' = MapRemove(current_command, c)
           /\ last_received' = FinishedUpdateRecord(last_received, c, call)
           /\ pending' = IF again THEN SchedulePending(pending, {c}) ELSE pending
           /\ timer' = IF again THEN ScheduleTimer(timer, pending, {c}) ELSE timer
           /\ resync' =
                 IF response /\ call.cmd.kind = "diff" /\ ~call.applied
                    /\ FellBehind(call)
                 THEN resync \cup {c} ELSE resync \ {c}
    /\ elided' = elided \ {c}
    /\ followup' = [followup EXCEPT ![c] =
          IF Head(calls[c]).phase = "ok" /\ ManyConfigurationChanges(Head(calls[c]))
          THEN "due" ELSE "none"]
    /\ raised' = [raised EXCEPT ![c] = "no"]
    /\ UNCHANGED <<connections, config_tracker, state_tracker, config_gen,
                   state_gen, conn_state, agent, send_failures, served,
                   diffVars, env>>

\* Whether a continuation of a command failed by connectionLost calls
\* _schedule_update.
LostWithContinuation(c) == \E i \in 1..Len(calls[c]) : calls[c][i].conts > 0

\* disconnected as it would be if it kept the remembered generations.
KeepGenerations(lr, c) == lr

\* disconnected: the remembered generations of the connection are deleted.
ForgetGenerations(lr, c) == MapRemove(lr, c)

\* connectionLost: AMP fails every unresolved callRemote (finished_update(None)
\* and the continuations run), then disconnected() forgets the connection.
\* The agent's protocol and locator are gone with the connection.
ConnectionLost(c) ==
    /\ conn_state[c] = "up"
    /\ LET rescheduled == LostWithContinuation(c)
       IN  /\ timer' = IF rescheduled THEN ScheduleTimer(timer, pending, {c})
                       ELSE timer
           /\ pending' = pending \ {c}
    /\ conn_state' = [conn_state EXCEPT ![c] = "lost"]
    /\ calls' = [calls EXCEPT ![c] = <<>>]
    /\ current_command' = MapRemove(current_command, c)
    /\ connections' = connections \ {c}
    /\ last_received' = ForgetGenerations(last_received, c)
    /\ agent' = [agent EXCEPT ![c] = NewAgent]
    /\ served' = served \ {c}
    /\ resync' = resync \ {c}
    /\ elided' = elided \ {c}
    /\ followup' = [followup EXCEPT ![c] = "none"]
    /\ raised' = [raised EXCEPT ![c] = "no"]
    /\ UNCHANGED <<config_tracker, state_tracker, config_gen, state_gen,
                   send_failures, diffVars, env>>

-----------------------------------------------------------------------------
(* The service and its agents.                                             *)

ProtocolInit ==
    /\ connections = {}
    /\ pending = {}
    /\ timer = FALSE
    /\ current_command = NoFields
    /\ last_received = NoFields
    /\ config_tracker = EmptyTracker
    /\ state_tracker = EmptyTracker
    /\ config_gen = 0
    /\ state_gen = 0
    /\ conn_state = [c \in Conns |-> "new"]
    /\ calls = [c \in Conns |-> <<>>]
    /\ agent = [c \in Conns |-> NewAgent]
    /\ send_failures = 0
    /\ served = {}
    /\ resync = {}
    /\ elided = {}
    /\ followup = [c \in Conns |-> "none"]
    /\ raised = [c \in Conns |-> "no"]

\* The two ends of a connection.
Sides == {"control", "agent"}

\* A delayed call that has fired or was cancelled, a LoopingCall not running.
Off == -1

TimeInit ==
    /\ delayed_calls = <<>>
    /\ timeouts = [s \in Sides |-> [c \in Conns |-> Off]]
    /\ pingers = [s \in Sides |-> [c \in Conns |-> Off]]
    /\ link = [c \in Conns |-> "ok"]
    /\ agent_up = [c \in Conns |-> FALSE]
    /\ silence = [s \in Sides |-> [c \in Conns |-> 0]]
    /\ aborted = [s \in Sides |-> [c \in Conns |-> 0]]
    /\ settling = 0

\* The runs explored: every agent connecting while the trees change a few
\* times, and one agent connecting while they change more often.
Environments ==
    {[conns |-> MaxConns, config |-> MaxConfigGen - 1, state |-> MaxStateGen - 1],
     [conns |-> 1, config |-> MaxConfigGen, state |-> MaxStateGen]}

Init ==
    /\ ProtocolInit
    /\ TimeInit
    /\ env \in Environments
    /\ ta = NoneValue
    /\ tb = NoneValue
    /\ tc = NoneValue
    /\ step = "idle"
    /\ out = NoneValue
    /\ out2 = NoneValue
    /\ patch = <<>>
    /\ BoxIdle
    /\ OwnershipIdle
    /\ ServiceRunning

\* The service with time left out: a delayed call fires at some point.
Next ==
    \/ \E c \in Conns : Connect(c) /\ UNCHANGED timeVars
    \/ \E c \in Conns : NodeChanged(c) /\ UNCHANGED timeVars
    \/ ConfigurationChanged /\ UNCHANGED timeVars
    \/ TimerFires /\ UNCHANGED timeVars
    \/ \E c \in Conns : AgentHandles(c) /\ UNCHANGED timeVars
    \/ \E c \in Conns : ResponseArrives(c) /\ UNCHANGED timeVars
    \/ \E c \in Conns : ConnectionLost(c) /\ UNCHANGED timeVars

Spec == Init /\ [][Next]_vars

-----------------------------------------------------------------------------
(* The service in time: the batching delay, the pingers and the inactivity *)
(* timeouts of the two protocols of a connection.                          *)

\* timeout_for_protocol as it would be with a delay of three intervals.
TimeoutLate == 3 * PING_INTERVAL

\* timeout_for_protocol: the delay of a protocol's Timeout.
TimeoutDelay == 2 * PING_INTERVAL

\* _schedule_update's callLater as it would be if it did not look at the
\* delayed call it already has.
CallLaterAgain(dc, armed, pend, conns) ==
    IF (pend \cup conns) # {}
    THEN Append(dc, CONTROL_SERVICE_BATCHING_DELAY) ELSE dc

\* _schedule_update(conns): the reactor's delayed calls after it.
CallLater(dc, armed, pend, conns) ==
    IF ~armed /\ (pend \cup conns) # {}
    THEN Append(dc, CONTROL_SERVICE_BATCHING_DELAY) ELSE dc

\* Timeout.reset as it would be if it left the delayed call as it was.
ResetTimeoutKept(tm, side, c) == tm

\* locateResponder: Timeout.reset() of the protocol that received a command.
ResetTimeout(tm, side, c) ==
    [tm EXCEPT ![side][c] = IF @ = Off THEN Off ELSE TimeoutDelay]

\* History: a side has just received a message.
Heard(sl, side, c) == [sl EXCEPT ![side][c] = 0]

\* Whether a side's protocol is connected.
SideUp(side, c) ==
    IF side = "control" THEN conn_state[c] = "up" ELSE agent_up[c]

Peer(side) == IF side = "control" THEN "agent" ELSE "control"

\* connectionMade on both protocols: the timeouts made in __init__ are
\* running, connected() schedules the first update, the pingers start.
TimedConnect(c) ==
    /\ Connect(c)
    /\ delayed_calls' = CallLater(delayed_calls, timer, pending, {c})
    /\ timeouts' = [s \in Sides |-> [timeouts[s] EXCEPT ![c] = TimeoutDelay]]
    /\ pingers' = [s \in Sides |-> [pingers[s] EXCEPT ![c] = PING_INTERVAL]]
    /\ agent_up' = [agent_up EXCEPT ![c] = TRUE]
    /\ UNCHANGED <<link, silence, aborted, settling>>

\* The agent sends a NodeStateCommand: the controller looks up its
\* responder (resetting its timeout), node_changed runs, and the answer
\* goes back to the agent.
TimedNodeChanged(c) ==
    /\ agent_up[c] /\ link[c] = "ok"
    /\ NodeChanged(c)
    /\ delayed_calls' = CallLater(delayed_calls, timer, pending, connections)
    /\ timeouts' = ResetTimeout(timeouts, "control", c)
    /\ silence' = Heard(Heard(silence, "control", c), "agent", c)
    /\ UNCHANGED <<pingers, link, agent_up, aborted, settling>>

TimedConfigurationChanged ==
    /\ ConfigurationChanged
    /\ delayed_calls' = CallLater(delayed_calls, timer, pending, connections)
    /\ UNCHANGED <<timeouts, pingers, link, agent_up, silence, aborted, settling>>

\* A delayed call to _execute_update_connections is due.
TimedTimerFires ==
    \E i \in 1..Len(delayed_calls) :
        /\ delayed_calls[i] = 0
        /\ TimerFires
        /\ delayed_calls' = [j \in 1..(Len(delayed_calls) - 1) |->
                                IF j < i THEN delayed_calls[j]
                                ELSE delayed_calls[j + 1]]
        /\ UNCHANGED <<timeouts, pingers, link, agent_up, silence, aborted, settling>>

\* The agent receives an update command: _AgentLocator.locateResponder.
TimedAgentHandles(c) ==
    /\ agent_up[c] /\ link[c] = "ok"
    /\ AgentHandles(c)
    /\ timeouts' = ResetTimeout(timeouts, "agent", c)
    /\ silence' = Heard(silence, "agent", c)
    /\ UNCHANGED <<delayed_calls, pingers, link, agent_up, aborted, settling>>

\* The controller receives the answer to an update command: AMP hands an
\* answer box to the Deferred of the call, no responder is looked up.
TimedResponseArrives(c) ==
    /\ link[c] = "ok"
    /\ ResponseArrives(c)
    /\ delayed_calls' =
          CallLater(delayed_calls, timer, pending,
                    IF ScheduledAgain(Head(calls[c])) THEN {c} ELSE {})
    /\ silence' = Heard(silence, "control", c)
    /\ UNCHANGED <<timeouts, pingers, link, agent_up, aborted, settling>>

\* Pinger: the LoopingCall of a side runs callRemote(NoOp); the peer, if it
\* is reached, looks up the NoOp responder.
Ping(side, c) ==
    /\ pingers[side][c] = 0
    /\ SideUp(side, c)
    /\ pingers' = [pingers EXCEPT ![side][c] = PING_INTERVAL]
    /\ IF link[c] = "ok" /\ SideUp(Peer(side), c)
       THEN /\ timeouts' = ResetTimeout(timeouts, Peer(side), c)
            /\ silence' = Heard(silence, Peer(side), c)
       ELSE UNCHANGED <<timeouts, silence>>
    /\ UNCHANGED <<delayed_calls, link, agent_up, aborted, settling>>
    /\ UNCHANGED <<diffVars, ctrlVars, connVars, env>>

\* The network stops carrying the connection's traffic, without either
\* side being told.
Stall(c) ==
    /\ conn_state[c] = "up"
    /\ link[c] = "ok"
    /\ link' = [link EXCEPT ![c] = "stalled"]
    /\ UNCHANGED <<delayed_calls, timeouts, pingers, agent_up, silence, aborted,
                   settling>>
    /\ UNCHANGED <<diffVars, ctrlVars, connVars, env>>

\* connectionLost on one side: the controller's service forgets the
\* connection; the side's pinger is stopped and its timeout cancelled.
\* by_timeout tells that the side's own Timeout called abortConnection.
SideLost(side, c, by_timeout) ==
    /\ SideUp(side, c)
    /\ IF side = "control"
       THEN /\ ConnectionLost(c)
            /\ delayed_calls' =
                  CallLater(delayed_calls, timer, pending,
                            IF LostWithContinuation(c) THEN {c} ELSE {})
            /\ agent_up' = agent_up
       ELSE /\ agent_up' = [agent_up EXCEPT ![c] = FALSE]
            /\ delayed_calls' = delayed_calls
            /\ UNCHANGED <<diffVars, ctrlVars, connVars, env>>
    /\ timeouts' = [timeouts EXCEPT ![side][c] = Off]
    /\ pingers' = [pingers EXCEPT ![side][c] = Off]
    /\ aborted' = IF by_timeout
                  THEN [aborted EXCEPT ![side][c] = @ + 1] ELSE aborted
    /\ UNCHANGED <<link, silence, settling>>

\* A protocol's Timeout is due: protocol.transport.abortConnection().
TimeoutFires(side, c) ==
    /\ timeouts[side][c] = 0
    /\ SideLost(side, c, TRUE)

\* The connection is lost for another reason (the peer closed it, the
\* transport failed).
Disconnect(side, c) ==
    /\ timeouts[side][c] # 0
    /\ SideLost(side, c, FALSE)

\* The count past which the ticks of a silence are not told apart.
SilenceCap == TimeoutDelay + 1

\* A tick of the reactor's clock: every delayed call that was due has run.
Tick ==
    /\ \A i \in 1..Len(delayed_calls) : delayed_calls[i] # 0
    /\ \A s \in Sides, c \in Conns : timeouts[s][c] # 0 /\ pingers[s][c] # 0
    /\ \E c \in Conns : conn_state[c] = "up" \/ agent_up[c]
    /\ delayed_calls' = [i \in 1..Len(delayed_calls) |-> delayed_calls[i] - 1]
    /\ timeouts' = [s \in Sides |-> [c \in Conns |->
                       IF timeouts[s][c] = Off THEN Off ELSE timeouts[s][c] - 1]]
    /\ pingers' = [s \in Sides |-> [c \in Conns |->
                      IF pingers[s][c] = Off THEN Off ELSE pingers[s][c] - 1]]
    /\ silence' = [s \in Sides |-> [c \in Conns |->
                      IF SideUp(s, c) /\ silence[s][c] < SilenceCap
                      THEN silence[s][c] + 1 ELSE silence[s][c]]]
    /\ UNCHANGED <<link, agent_up, aborted, settling>>
    /\ UNCHANGED <<diffVars, ctrlVars, connVars, env>>

\* The runs explored in time.
TimedEnvironments == {[conns |-> 1, config |-> 1, state |-> 1]}

TimedInit ==
    /\ ProtocolInit
    /\ TimeInit
    /\ env \in TimedEnvironments
    /\ ta = NoneValue
    /\ tb = NoneValue
    /\ tc = NoneValue
    /\ step = "idle"
    /\ out = NoneValue
    /\ out2 = NoneValue
    /\ patch = <<>>
    /\ BoxIdle
    /\ OwnershipIdle
    /\ ServiceRunning

TimedNext ==
    \/ \E c \in Conns : TimedConnect(c)
    \/ \E c \in Conns : TimedNodeChanged(c)
    \/ TimedConfigurationChanged
    \/ TimedTimerFires
    \/ \E c \in Conns : TimedAgentHandles(c)
    \/ \E c \in Conns : TimedResponseArrives(c)
    \/ \E s \in Sides, c \in Conns : Ping(s, c)
    \/ \E c \in Conns : Stall(c)
    \/ \E s \in Sides, c \in Conns : TimeoutFires(s, c)
    \/ \E s \in Sides, c \in Conns : Disconnect(s, c)
    \/ Tick

SpecTime == TimedInit /\ [][TimedNext]_vars

-----------------------------------------------------------------------------
(* The agent's responders on the commands a connection can deliver: any    *)
(* configuration and state with any pair of generation hashes, any diff    *)
(* between two generations with the start and end hashes right or wrong.   *)

\* The agent after a full update it accepted, or before its first.
AgentStates ==
    {NewAgent} \cup
    {[configuration |-> ConfigValue(i),
      configuration_generation |-> make_generation_hash(ConfigValue(i)),
      state |-> StateValue(j),
      state_generation |-> make_generation_hash(StateValue(j)),
      notified |-> FALSE] : i \in 0..MaxConfigGen, j \in 0..MaxStateGen}

FullCommands ==
    {[kind |-> "full",
      configuration |-> ConfigValue(i),
      configuration_diff |-> <<>>,
      start_configuration_generation |-> NoHash,
      configuration_generation |-> make_generation_hash(ConfigValue(ih)),
      state |-> StateValue(j),
      state_diff |-> <<>>,
      start_state_generation |-> NoHash,
      state_generation |-> make_generation_hash(StateValue(jh))] :
        i \in 0..MaxConfigGen, ih \in 0..MaxConfigGen,
        j \in 0..MaxStateGen, jh \in 0..MaxStateGen}

\* The generation itself, or the one after it.
Near(i, max) == {i, (i + 1) % (max + 1)}

DiffCommands ==
    UNION {
      UNION {
        {[kind |-> "diff",
          configuration |-> NoneValue,
          configuration_diff |-> create_diff(ConfigValue(ca), ConfigValue(cb)),
          start_configuration_generation |-> make_generation_hash(ConfigValue(cs)),
          configuration_generation |-> make_generation_hash(ConfigValue(ce)),
          state |-> NoneValue,
          state_diff |-> create_diff(StateValue(sa), StateValue(sb)),
          start_state_generation |-> make_generation_hash(StateValue(ss)),
          state_generation |-> make_generation_hash(StateValue(se))] :
            cs \in Near(ca, MaxConfigGen), ce \in Near(cb, MaxConfigGen),
            ss \in Near(sa, MaxStateGen), se \in Near(sb, MaxStateGen)} :
        ca \in 0..MaxConfigGen, cb \in 0..MaxConfigGen} :
      sa \in 0..MaxStateGen, sb \in 0..MaxStateGen}

\* One connected agent with one command delivered to it.
AgentInit ==
    /\ connections = {1}
    /\ pending = {}
    /\ timer = FALSE
    /\ current_command = MapSet(NoFields, 1, FALSE)
    /\ last_received = MapSet(NoFields, 1, NoGenerations)
    /\ config_tracker = EmptyTracker
    /\ state_tracker = EmptyTracker
    /\ config_gen = 0
    /\ state_gen = 0
    /\ conn_state = [c \in Conns |-> IF c = 1 THEN "up" ELSE "new"]
    /\ \E cmd \in FullCommands \cup DiffCommands :
          calls = [c \in Conns |-> IF c = 1 THEN <<NewCall(cmd)>> ELSE <<>>]
    /\ \E ag \in AgentStates :
          agent = [c \in Conns |-> IF c = 1 THEN ag ELSE NewAgent]
    /\ send_failures = 0
    /\ served = {1}
    /\ resync = {}
    /\ elided = {}
    /\ followup = [c \in Conns |-> "none"]
    /\ raised = [c \in Conns |-> "no"]
    /\ TimeInit
    /\ env = [conns |-> 1, config |-> 0, state |-> 0]
    /\ ta = NoneValue
    /\ tb = NoneValue
    /\ tc = NoneValue
    /\ step = "idle"
    /\ out = NoneValue
    /\ out2 = NoneValue
    /\ patch = <<>>
    /\ BoxIdle
    /\ OwnershipIdle
    /\ ServiceRunning

AgentNext == \E c \in Conns : AgentHandles(c) /\ UNCHANGED timeVars

SpecAgent == AgentInit /\ [][AgentNext]_vars

-----------------------------------------------------------------------------
(* set_blockdevice_id: the ownership bindings of the saved configuration.  *)

\* The SetBlockDeviceIdForDatasetId responder, called by a connected agent.
\* configuration_service.save stores another configuration and calls the
\* observer the service registered, _schedule_broadcast_update.
SetBlockDeviceId(c, dataset_id, blockdevice_id) ==
    /\ conn_state[c] = "up"
    /\ answer.n < MaxOwnershipCalls
    /\ LET recorded == record_ownership(ownership, dataset_id, blockdevice_id)
           save == SaveNeeded(ownership, dataset_id, blockdevice_id)
                   /\ ~recorded.raised
       IN  /\ answer' = [n |-> answer.n + 1,
                         dataset_id |-> dataset_id,
                         blockdevice_id |-> blockdevice_id,
                         result |-> IF SaveNeeded(ownership, dataset_id, blockdevice_id)
                                       /\ recorded.raised
                                    THEN "ALREADY_OWNED" ELSE "ok"]
           /\ IF save
              THEN /\ ownership' = recorded.ownership
                   /\ saved' = saved + 1
                   /\ config_gen' = config_gen + 1
                   /\ pending' = SchedulePending(pending, connections)
                   /\ timer' = ScheduleTimer(timer, pending, connections)
              ELSE UNCHANGED <<ownership, saved, config_gen, pending, timer>>
    /\ UNCHANGED <<connections, current_command, last_received, config_tracker,
                   state_tracker, state_gen, connVars, env, timeVars,
                   ta, tb, tc, step, out, out2, patch, boxVars,
                   stopVars>>

OwnershipInit ==
    /\ ProtocolInit
    /\ TimeInit
    /\ env = [conns |-> MaxConns, config |-> 0, state |-> 0]
    /\ ta = NoneValue
    /\ tb = NoneValue
    /\ tc = NoneValue
    /\ step = "idle"
    /\ out = NoneValue
    /\ out2 = NoneValue
    /\ patch = <<>>
    /\ BoxIdle
    /\ OwnershipIdle
    /\ ServiceRunning

OwnershipNext ==
    \/ \E c \in Conns : Connect(c) /\ UNCHANGED timeVars
    \/ \E c \in Conns, d \in Datasets, b \in Devices : SetBlockDeviceId(c, d, b)
    \/ TimerFires /\ UNCHANGED timeVars

SpecOwnership == OwnershipInit /\ [][OwnershipNext]_vars

-----------------------------------------------------------------------------
(* Big applied to drawn serialized values.                                 *)

\* The byte strings of up to MaxBytes bytes, over two byte values.
RECURSIVE ByteStrings(_)
ByteStrings(n) ==
    IF n = 0 THEN {<<>>}
    ELSE LET shorter == ByteStrings(n - 1)
         IN  shorter \cup {Append(b, x) : b \in shorter, x \in {0, 1}}

BigInit ==
    /\ ProtocolInit
    /\ TimeInit
    /\ env = [conns |-> 0, config |-> 0, state |-> 0]
    /\ ta = NoneValue
    /\ tb = NoneValue
    /\ tc = NoneValue
    /\ step = "idle"
    /\ out = NoneValue
    /\ out2 = NoneValue
    /\ patch = <<>>
    /\ big_value \in ByteStrings(MaxBytes)
    /\ strings = Strings(TRUE, big_value, <<>>)
    /\ bstep = "serialized"
    /\ OwnershipIdle
    /\ ServiceRunning

\* Big.toBox on the sending side.
BigToBox ==
    /\ bstep = "serialized"
    /\ bstep' = "boxed"
    /\ strings' = ToBox(strings.value)
    /\ UNCHANGED <<big_value, ta, tb, tc, step, out, out2, patch, ownVars, stopVars,
                   ctrlVars, connVars, env, timeVars>>

\* Big.fromBox on the receiving side.
BigFromBox ==
    /\ bstep = "boxed"
    /\ bstep' = "unboxed"
    /\ strings' = FromBox(strings)
    /\ UNCHANGED <<big_value, ta, tb, tc, step, out, out2, patch, ownVars, stopVars,
                   ctrlVars, connVars, env, timeVars>>

BigNext == BigToBox \/ BigFromBox

SpecBig == BigInit /\ [][BigNext]_vars

-----------------------------------------------------------------------------
(* The diff algebra applied to drawn inputs.                               *)

\* q.apply(p.apply(t)): the second patch is applied only when the first
\* application returned.
SerialApply(p, q, t) ==
    LET mid == DiffApply(p, t)
    IN  IF mid.t = "error" THEN mid ELSE DiffApply(q, mid)

DiffInit ==
    /\ ProtocolInit
    /\ TimeInit
    /\ env = [conns |-> 0, config |-> 0, state |-> 0]
    /\ ta \in Roots
    /\ tb \in Roots
    /\ tc \in Roots
    /\ step = "drawn"
    /\ out = NoneValue
    /\ out2 = NoneValue
    /\ patch = <<>>
    /\ BoxIdle
    /\ OwnershipIdle
    /\ ServiceRunning

\* Diff.apply on A of create_diff(A, B).
RoundTrip ==
    /\ step = "drawn"
    /\ step' = "roundtrip"
    /\ out' = DiffApply(create_diff(ta, tb), ta)
    /\ out2' = out2
    /\ UNCHANGED <<ta, tb, tc, patch, boxVars, ownVars, stopVars, ctrlVars,
                   connVars, env,
                   timeVars>>

\* Diff.apply on A of compose_diffs([create_diff(A, B), create_diff(B, C)]),
\* next to the serial application of the two diffs.
Compose ==
    /\ step = "drawn"
    /\ step' = "compose"
    /\ out' = DiffApply(compose_diffs(<<create_diff(ta, tb), create_diff(tb, tc)>>), ta)
    /\ out2' = SerialApply(create_diff(ta, tb), create_diff(tb, tc), ta)
    /\ UNCHANGED <<ta, tb, tc, patch, boxVars, ownVars, stopVars, ctrlVars,
                   connVars, env,
                   timeVars>>

DiffNext == RoundTrip \/ Compose

SpecDiff == DiffInit /\ [][DiffNext]_vars

-----------------------------------------------------------------------------
\* C1: round trip: Diff.apply on A of create_diff(A, B) returns a value equal
\* to B, for all tree values A and B.  Stated here for the roots Diff.apply
\* can take at all (records, mappings and sets: a primitive has no evolver).
C1_RoundTrip ==
    (step = "roundtrip" /\ HasEvolver(ta) /\ HasEvolver(tb)) => out = tb

\* C2: compose homomorphism: whenever applying create_diff(A, B) and then
\* create_diff(B, C) to A returns C, applying the composition of the two
\* diffs to A returns C as well.
C2_ComposeHomomorphism == (step = "compose" /\ out2 = tc) => out = tc

-----------------------------------------------------------------------------
(* The service stopped: stopService, and the loss of the connections it    *)
(* asked to close.                                                         *)

\* stopService: the delayed call is cancelled, the endpoint stops, every
\* connection is asked to close (its connectionLost runs later) and the set
\* of connections is replaced by an empty one.  Nothing else is reset.
StopService ==
    /\ running
    /\ running' = FALSE
    /\ timer' = FALSE
    /\ conn_state' = [c \in Conns |->
          IF c \in connections THEN "closing" ELSE conn_state[c]]
    /\ connections' = {}
    /\ UNCHANGED <<pending, current_command, last_received, config_tracker,
                   state_tracker, config_gen, state_gen, calls, agent,
                   send_failures, served, resync, elided, followup, raised,
                   disconnect_errors, ta, tb, tc, step, out, out2, patch,
                   boxVars, ownVars, env>>

\* disconnected: self._connections.remove(connection) raises KeyError for a
\* connection the set does not hold.
DisconnectedRaises(conns, c) == c \notin conns

\* connectionLost of a connection stopService asked to close: AMP fails
\* every unresolved callRemote (finished_update(None) and the continuations
\* run, and a continuation schedules the connection), then disconnected()
\* runs; when it raises, nothing after its first line happens, nor the
\* pinger stop and timeout cancel that follow it in connectionLost.
ClosingLost(c) ==
    /\ conn_state[c] = "closing"
    /\ LET rescheduled == LostWithContinuation(c)
           scheduled == IF rescheduled THEN SchedulePending(pending, {c})
                        ELSE pending
           raises == DisconnectedRaises(connections, c)
       IN  /\ timer' = IF rescheduled THEN ScheduleTimer(timer, pending, {c})
                       ELSE timer
           /\ pending' = IF raises THEN scheduled ELSE scheduled \ {c}
           /\ connections' = connections \ {c}
           /\ last_received' = IF raises THEN last_received
                               ELSE ForgetGenerations(last_received, c)
           /\ disconnect_errors' = IF raises THEN disconnect_errors \cup {c}
                                   ELSE disconnect_errors
    /\ conn_state' = [conn_state EXCEPT ![c] = "lost"]
    /\ calls' = [calls EXCEPT ![c] = <<>>]
    /\ current_command' = MapRemove(current_command, c)
    /\ agent' = [agent EXCEPT ![c] = NewAgent]
    /\ served' = served \ {c}
    /\ resync' = resync \ {c}
    /\ elided' = elided \ {c}
    /\ followup' = [followup EXCEPT ![c] = "none"]
    /\ raised' = [raised EXCEPT ![c] = "no"]
    /\ UNCHANGED <<config_tracker, state_tracker, config_gen, state_gen,
                   send_failures, running, ta, tb, tc, step, out, out2, patch,
                   boxVars, ownVars, env>>

\* A delayed call fires; callRemote on a connection that is lost fails at
\* once (AMP answers with the failure it was lost with).
StoppableTimerFires ==
    \E failed \in SUBSET pending :
        /\ {c \in pending : conn_state[c] = "lost"} \subseteq failed
        /\ ExecuteUpdateConnections(failed)

\* One run: two agents, the configuration and the state changing once each.
StopEnvironments == {[conns |-> 2, config |-> 1, state |-> 1]}

StopInit ==
    /\ ProtocolInit
    /\ TimeInit
    /\ env \in StopEnvironments
    /\ ta = NoneValue
    /\ tb = NoneValue
    /\ tc = NoneValue
    /\ step = "idle"
    /\ out = NoneValue
    /\ out2 = NoneValue
    /\ patch = <<>>
    /\ BoxIdle
    /\ OwnershipIdle
    /\ ServiceRunning

\* The protocol with stopService: once the service is stopped its endpoint
\* accepts no connection, and the configuration store and the agents that
\* are closing deliver nothing more.
StopNext ==
    \/ \E c \in Conns : running /\ Connect(c) /\ UNCHANGED timeVars
    \/ \E c \in Conns : running /\ NodeChanged(c) /\ UNCHANGED timeVars
    \/ running /\ ConfigurationChanged /\ UNCHANGED timeVars
    \/ StoppableTimerFires /\ UNCHANGED timeVars
    \/ \E c \in Conns : AgentHandles(c) /\ UNCHANGED timeVars
    \/ \E c \in Conns : ResponseArrives(c) /\ UNCHANGED timeVars
    \/ \E c \in Conns : ConnectionLost(c) /\ UNCHANGED timeVars
    \/ StopService /\ UNCHANGED timeVars
    \/ \E c \in Conns : ClosingLost(c) /\ UNCHANGED timeVars

SpecStop == StopInit /\ [][StopNext]_vars

-----------------------------------------------------------------------------
(* The service settling: the steps the controller and the agents take on   *)
(* their own, counted from the last event that reached them from outside   *)
(* (an agent connecting, reporting its state or being lost, a saved         *)
(* configuration).                                                          *)

\* The count the settling steps are followed up to.
MaxSettleSteps == 12

\* A step caused from outside the service.
FromOutside ==
    /\ settling' = 0
    /\ UNCHANGED clockVars

\* A step the reactor takes on its own: a delayed call, a command handled
\* by an agent, a response handed to its Deferred.
OnItsOwn ==
    /\ settling < MaxSettleSteps
    /\ settling' = settling + 1
    /\ UNCHANGED clockVars

SettleEnvironments == {[conns |-> 2, config |-> 1, state |-> 1]}

SettleInit ==
    /\ ProtocolInit
    /\ TimeInit
    /\ env \in SettleEnvironments
    /\ ta = NoneValue
    /\ tb = NoneValue
    /\ tc = NoneValue
    /\ step = "idle"
    /\ out = NoneValue
    /\ out2 = NoneValue
    /\ patch = <<>>
    /\ BoxIdle
    /\ OwnershipIdle
    /\ ServiceRunning

SettleNext ==
    \/ \E c \in Conns : Connect(c) /\ FromOutside
    \/ \E c \in Conns : NodeChanged(c) /\ FromOutside
    \/ ConfigurationChanged /\ FromOutside
    \/ TimerFires /\ OnItsOwn
    \/ \E c \in Conns : AgentHandles(c) /\ OnItsOwn
    \/ \E c \in Conns : ResponseArrives(c) /\ OnItsOwn
    \/ \E c \in Conns : ConnectionLost(c) /\ FromOutside

SpecSettle == SettleInit /\ [][SettleNext]_vars

-----------------------------------------------------------------------------
(* create_diff on drawn pairs of tree values.                              *)

CreateInit ==
    /\ ProtocolInit
    /\ TimeInit
    /\ env = [conns |-> 0, config |-> 0, state |-> 0]
    /\ ta \in Roots
    /\ tb \in Roots
    /\ tc = NoneValue
    /\ step = "drawn"
    /\ out = NoneValue
    /\ out2 = NoneValue
    /\ patch = <<>>
    /\ BoxIdle
    /\ OwnershipIdle
    /\ ServiceRunning

\* create_diff(A, B): the changes of the Diff it returns.
CreateDiff ==
    /\ step = "drawn"
    /\ step' = "diff"
    /\ patch' = create_diff(ta, tb)
    /\ UNCHANGED <<ta, tb, tc, out, out2, boxVars, ownVars, stopVars, ctrlVars,
                   connVars,
                   env, timeVars>>

\* Diff.apply of the Diff create_diff returned, on the first value.
ApplyCreated ==
    /\ step = "diff"
    /\ step' = "applied"
    /\ out' = DiffApply(patch, ta)
    /\ UNCHANGED <<ta, tb, tc, out2, patch, boxVars, ownVars, stopVars, ctrlVars,
                   connVars,
                   env, timeVars>>

CreateNext == CreateDiff \/ ApplyCreated

SpecCreate == CreateInit /\ [][CreateNext]_vars

-----------------------------------------------------------------------------
(* Diff.apply on drawn trees and drawn patches.                            *)

\* A record whose invariant ties two fields, alone and under a key; a
\* mapping under a key; an empty mapping.
PatchTrees ==
    {PClassOf("Pair", [f \in {"x", "y"} |-> Leaf(1)]),
     PMapOf([k \in {"k"} |-> PClassOf("Pair", [f \in {"x", "y"} |-> Leaf(1)])]),
     PMapOf([k \in {"k"} |-> PMapOf([f \in {"x"} |-> Leaf(1)])]),
     PMapOf(NoFields)}

\* Writes of a field at the root and under a key, a leaf and a collection
\* written over a key, root replacements, removals, and a write whose path
\* runs through a key no drawn tree has.
PatchOperations ==
    {SetOp(<<"x">>, Leaf(2)), SetOp(<<"y">>, Leaf(2)),
     SetOp(<<"k", "x">>, Leaf(2)), SetOp(<<"k", "y">>, Leaf(2)),
     SetOp(<<"k">>, Leaf(1)),
     SetOp(<<"k">>, PMapOf([f \in {"x"} |-> Leaf(1)])),
     SetOp(<<>>, PClassOf("Pair", [f \in {"x", "y"} |-> Leaf(1)])),
     SetOp(<<>>, PMapOf([k \in {"k"} |-> PMapOf([f \in {"x"} |-> Leaf(1)])])),
     RemoveKeyOp(<<>>, "k"),
     RemoveKeyOp(<<"k">>, "x"),
     SetOp(<<"q", "x">>, Leaf(1))}

\* Patches have at most this many operations.
MaxPatchLen == 3

Patches == UNION {[1..n -> PatchOperations] : n \in 0..MaxPatchLen}

PatchInit ==
    /\ ProtocolInit
    /\ TimeInit
    /\ env = [conns |-> 0, config |-> 0, state |-> 0]
    /\ ta \in PatchTrees
    /\ tb = NoneValue
    /\ tc = NoneValue
    /\ step = "drawn"
    /\ out = NoneValue
    /\ out2 = NoneValue
    /\ patch \in Patches
    /\ BoxIdle
    /\ OwnershipIdle
    /\ ServiceRunning

\* Diff(changes=patch).apply(A), next to the proxy the loop of Diff.apply
\* hands to commit.
ApplyPatch ==
    /\ step = "drawn"
    /\ step' = "applied"
    /\ out' = DiffApply(patch, ta)
    /\ out2' = ApplyChanges(EvolverProxy(ta), patch)
    /\ UNCHANGED <<ta, tb, tc, patch, boxVars, ownVars, stopVars, ctrlVars,
                   connVars, env,
                   timeVars>>

PatchNext == ApplyPatch

SpecPatch == PatchInit /\ [][PatchNext]_vars

-----------------------------------------------------------------------------
(* The protocol's properties.                                              *)

\* The hashes of the controller's latest configuration and state.
LatestConfigurationHash == make_generation_hash(ConfigValue(config_gen))

LatestStateHash == make_generation_hash(StateValue(state_gen))

\* Nothing is scheduled and nothing is outstanding: unless the configuration
\* or the state changes or an agent connects, the controller sends nothing.
Quiescent ==
    /\ ~timer
    /\ pending = {}
    /\ \A c \in Conns : calls[c] = <<>>

\* C3: broadcast convergence: once the configuration and the aggregate state
\* have stopped changing and the connections stay up, every connected agent
\* comes to hold the hashes of the controller's latest configuration and
\* state.  In a run without any failed send, a state where the controller
\* has nothing left to do must therefore have every connected agent there.
C3_BroadcastConvergence ==
    (Quiescent /\ send_failures = 0) =>
        \A c \in connections :
            /\ agent[c].configuration_generation = LatestConfigurationHash
            /\ agent[c].state_generation = LatestStateHash

\* How far along the configuration's (the state's) history a hash is: -1 for
\* a hash of none of its values.
ConfigurationHashes ==
    [i \in 0..MaxConfigGen |-> make_generation_hash(ConfigValue(i))]

StateHashes == [i \in 0..MaxStateGen |-> make_generation_hash(StateValue(i))]

ConfigurationAge(h) ==
    LET at == {i \in 0..MaxConfigGen : ConfigurationHashes[i] = h}
    IN  IF at = {} THEN -1 ELSE CHOOSE i \in at : TRUE

StateAge(h) ==
    LET at == {i \in 0..MaxStateGen : StateHashes[i] = h}
    IN  IF at = {} THEN -1 ELSE CHOOSE i \in at : TRUE

\* C4: elision safety: on every connection the generations acknowledged to
\* the controller never go backwards: what the controller records for a
\* connection is never older, in either tree, than what it had recorded.
C4_ElisionSafety ==
    [][\A c \in Conns :
          /\ (c \in DOMAIN last_received /\ c \in DOMAIN last_received') =>
                /\ ConfigurationAge(last_received'[c].config_hash)
                      >= ConfigurationAge(last_received[c].config_hash)
                /\ StateAge(last_received'[c].state_hash)
                      >= StateAge(last_received[c].state_hash)
          /\ \A i \in 1..Len(calls'[c]) :
                calls'[c][i].phase = "ok" =>
                    /\ ConfigurationAge(calls'[c][i].current_configuration_generation)
                          >= ConfigurationAge(LastReceived(last_received', c).config_hash)
                    /\ StateAge(calls'[c][i].current_state_generation)
                          >= StateAge(LastReceived(last_received', c).state_hash)]_vars

\* An agent that had acknowledged the first generations has applied a diff
\* and answered with later generations of both trees.
C4_Witness ==
    \E c \in Conns :
        /\ c \in DOMAIN last_received
        /\ ConfigurationAge(last_received[c].config_hash) = 0
        /\ StateAge(last_received[c].state_hash) = 0
        /\ Len(calls[c]) = 1
        /\ calls[c][1].phase = "ok"
        /\ calls[c][1].cmd.kind = "diff"
        /\ ConfigurationAge(calls[c][1].current_configuration_generation) >= 1
        /\ StateAge(calls[c][1].current_state_generation) >= 1

\* C5: at every moment a connection has at most one unacknowledged update
\* command outstanding, and at most one re-schedule continuation attached to
\* it, however often the trees change and the timer fires meanwhile.
C5_OneOutstanding ==
    \A c \in Conns :
        /\ Len(calls[c]) <= 1
        /\ \A i \in 1..Len(calls[c]) : calls[c][i].conts <= 1

\* An update was elided for a connection whose command is outstanding with
\* its one continuation, after both trees have changed.
C5_Witness ==
    \E c \in elided :
        /\ Len(calls[c]) = 1
        /\ calls[c][1].conts = 1
        /\ config_gen >= 1 /\ state_gen >= 1

\* The connections of a firing whose callRemote raised.
SendRaised(c) == calls'[c] = calls[c] /\ c \notin DOMAIN current_command'

\* C6: per-connection send decision: when the batch timer fires, a connection
\* with no inflight update gets exactly one callRemote (the command is then
\* outstanding, unless the call raised); one with an inflight update and
\* next_scheduled false is sent nothing, has next_scheduled set and gets one
\* continuation, which re-schedules it when the inflight update is answered;
\* one with next_scheduled already true is sent nothing and keeps its
\* bookkeeping.
C6_SendDecision ==
    [][/\ (timer /\ ~timer') =>
            /\ \A c \in CanUpdate(pending) :
                  \/ /\ Len(calls'[c]) = Len(calls[c]) + 1
                     /\ SubSeq(calls'[c], 1, Len(calls[c])) = calls[c]
                     /\ calls'[c][Len(calls'[c])].phase = "sent"
                     /\ calls'[c][Len(calls'[c])].conts = 0
                     /\ c \in DOMAIN current_command'
                     /\ ~current_command'[c]
                  \/ SendRaised(c)
            /\ Cardinality({c \in CanUpdate(pending) : SendRaised(c)})
                  = send_failures' - send_failures
            /\ \A c \in pending \ CanUpdate(pending) :
                  IF current_command[c]
                  THEN /\ calls'[c] = calls[c]
                       /\ c \in DOMAIN current_command' /\ current_command'[c]
                  ELSE /\ Len(calls'[c]) = Len(calls[c])
                       /\ calls'[c] = [calls[c] EXCEPT ![Len(calls[c])].conts = 1]
                       /\ c \in DOMAIN current_command' /\ current_command'[c]
       /\ \A c \in Conns :
            (/\ Len(calls'[c]) < Len(calls[c])
             /\ c \in connections'
             /\ Head(calls[c]).conts > 0) => (c \in pending' /\ timer')]_vars

\* After a firing one connection has a fresh command out while an update
\* was elided for another, whose command carries its continuation.
C6_Witness ==
    \E c, d \in Conns :
        /\ c # d
        /\ c \in elided /\ c \in DOMAIN current_command /\ current_command[c]
        /\ Len(calls[c]) = 1 /\ calls[c][1].conts = 1
        /\ d \in DOMAIN current_command /\ ~current_command[d]
        /\ Len(calls[d]) = 1 /\ calls[d][1].phase = "sent"

\* The command just sent to a connection, in a step that sent one.
Sent(c) == calls'[c][Len(calls'[c])].cmd

\* C7: diff-or-full decision: a command sent is a ClusterStatusDiffCommand
\* exactly when the trackers hold a patch from both hashes the connection
\* acknowledged last, and then it carries those two patches; otherwise it is
\* a ClusterStatusCommand with the latest configuration and state and their
\* hashes.  No command mixes a patch of one tree with a snapshot of the other.
C7_DiffOrFull ==
    [][\A c \in Conns :
          Len(calls'[c]) > Len(calls[c]) =>
              LET last == LastReceived(last_received, c)
                  cp == get_diff_from_hash_to_latest(config_tracker', last.config_hash)
                  sp == get_diff_from_hash_to_latest(state_tracker', last.state_hash)
              IN  IF cp.found /\ sp.found
                  THEN /\ Sent(c).kind = "diff"
                       /\ Sent(c).configuration_diff = cp.changes
                       /\ Sent(c).state_diff = sp.changes
                       /\ Sent(c).start_configuration_generation = last.config_hash
                       /\ Sent(c).start_state_generation = last.state_hash
                       /\ Sent(c).configuration_generation = LatestConfigurationHash
                       /\ Sent(c).state_generation = LatestStateHash
                  ELSE /\ Sent(c).kind = "full"
                       /\ Sent(c).configuration = ConfigValue(config_gen)
                       /\ Sent(c).state = StateValue(state_gen)
                       /\ Sent(c).configuration_diff = <<>>
                       /\ Sent(c).state_diff = <<>>
                       /\ Sent(c).configuration_generation = LatestConfigurationHash
                       /\ Sent(c).state_generation = LatestStateHash]_vars

\* A full snapshot is out to a connection whose acknowledged configuration
\* hash the tracker has a patch from, but whose acknowledged state hash it
\* has forgotten.
C7_Witness ==
    \E c \in Conns :
        /\ Len(calls[c]) = 1
        /\ calls[c][1].phase = "sent"
        /\ calls[c][1].cmd.kind = "full"
        /\ c \in DOMAIN last_received
        /\ last_received[c].state_hash # NoHash
        /\ get_diff_from_hash_to_latest(config_tracker,
                                        last_received[c].config_hash).found
        /\ ~get_diff_from_hash_to_latest(state_tracker,
                                         last_received[c].state_hash).found

\* C8: a new agent: the first command sent to a connection, which has
\* acknowledged nothing, is a ClusterStatusCommand with the controller's
\* latest configuration and state and their hashes, and the agent's answer
\* to it carries exactly those two hashes.
C8_NewAgentFullSnapshot ==
    [][\A c \in Conns :
          LastReceived(last_received, c) = NoGenerations =>
              /\ Len(calls'[c]) > Len(calls[c]) =>
                    /\ Sent(c).kind = "full"
                    /\ Sent(c).configuration = ConfigValue(config_gen)
                    /\ Sent(c).configuration_generation = LatestConfigurationHash
                    /\ Sent(c).state = StateValue(state_gen)
                    /\ Sent(c).state_generation = LatestStateHash
              /\ \A i \in 1..Len(calls[c]) :
                    (/\ Len(calls'[c]) = Len(calls[c])
                     /\ calls[c][i].phase = "sent"
                     /\ calls'[c][i].phase # "sent") =>
                        /\ calls'[c][i].phase = "ok"
                        /\ calls'[c][i].current_configuration_generation
                              = calls[c][i].cmd.configuration_generation
                        /\ calls'[c][i].current_state_generation
                              = calls[c][i].cmd.state_generation]_vars

\* An agent that connected after both trees had changed has answered its
\* first command.
C8_Witness ==
    \E c \in Conns :
        /\ c \in DOMAIN last_received
        /\ last_received[c] = NoGenerations
        /\ Len(calls[c]) = 1
        /\ calls[c][1].phase = "ok"
        /\ calls[c][1].cmd.configuration_generation
              = make_generation_hash(ConfigValue(1))
        /\ calls[c][1].cmd.state_generation = make_generation_hash(StateValue(1))

\* C9: the elision scenario: when the configuration has changed several
\* times while a connection's update was inflight, the acknowledgement of
\* that update leaves exactly one follow-up scheduled; the follow-up is one
\* command, whose end configuration generation is the hash of the
\* configuration as the last change left it; and when the follow-up is
\* acknowledged with the latest hashes nothing further is scheduled.
C9_ElisionScenario ==
    [][\A c \in Conns :
          /\ (followup[c] # "due" /\ followup'[c] = "due") =>
                /\ c \in pending' /\ timer'
                /\ calls'[c] = <<>>
                /\ c \notin DOMAIN current_command'
          /\ (followup[c] = "due" /\ followup'[c] = "sent") =>
                /\ Len(calls'[c]) = 1
                /\ Sent(c).configuration_generation = LatestConfigurationHash
          /\ (followup[c] = "due" /\ followup'[c] = "due") => calls'[c] = <<>>
          /\ (/\ followup[c] = "sent" /\ followup'[c] = "none"
              /\ c \in connections'
              /\ Head(calls[c]).phase = "ok"
              /\ Head(calls[c]).conts = 0
              /\ Head(calls[c]).current_configuration_generation
                    = LatestConfigurationHash
              /\ Head(calls[c]).current_state_generation = LatestStateHash
              /\ c \notin pending) => (c \notin pending' /\ calls'[c] = <<>>)]_vars

\* The follow-up is out after an update was acknowledged that two
\* configuration changes had been made behind: it is a patch from the
\* first configuration to the third.
C9_Witness ==
    \E c \in Conns :
        /\ followup[c] = "sent"
        /\ Len(calls[c]) = 1
        /\ calls[c][1].cmd.start_configuration_generation
              = make_generation_hash(ConfigValue(0))
        /\ calls[c][1].cmd.configuration_generation
              = make_generation_hash(ConfigValue(2))

\* C10: start-hash mismatch recovery: after an agent has answered a
\* ClusterStatusDiffCommand without applying it, with hashes that are not
\* the controller's latest, the next command the controller sends to that
\* connection is a full-snapshot ClusterStatusCommand.  Stated for the runs
\* in which no send has failed.
C10_MismatchRecovery ==
    [][\A c \in resync :
          (send_failures' = 0 /\ Len(calls'[c]) > Len(calls[c])) =>
              Sent(c).kind = "full"]_vars

\* A successful response to the oldest command of connection c is processed
\* in this step.
Answered(c) ==
    /\ Len(calls'[c]) < Len(calls[c])
    /\ c \in connections'
    /\ Head(calls[c]).phase = "ok"

\* C11: acknowledgement handling: when a successful response arrives, the
\* remembered hashes of the connection become exactly the two hashes of the
\* response, and finished_update schedules another update to the connection
\* if and only if those hashes differ from the latest configuration hash or
\* the latest state hash of the trackers.  (A continuation attached by a
\* timer firing meanwhile schedules the connection by itself.)
C11_AcknowledgementHandling ==
    [][\A c \in Conns :
          Answered(c) =>
              LET response == Head(calls[c])
                  behind ==
                      \/ response.current_configuration_generation
                            # config_tracker.latest_hash
                      \/ response.current_state_generation
                            # state_tracker.latest_hash
              IN  /\ c \in DOMAIN last_received'
                  /\ last_received'[c].config_hash
                        = response.current_configuration_generation
                  /\ last_received'[c].state_hash
                        = response.current_state_generation
                  /\ behind => (c \in pending' /\ timer')
                  /\ (~behind /\ response.conts = 0) =>
                        (pending' = pending /\ timer' = timer)]_vars

\* A successful answer to a diff the agent did not apply has been processed:
\* the hashes it reported are remembered, they are behind the trackers, and
\* the connection is scheduled.
C11_Witness ==
    \E c \in resync :
        /\ c \in pending /\ timer
        /\ c \in DOMAIN last_received
        /\ last_received[c].config_hash = agent[c].configuration_generation
        /\ last_received[c].state_hash = agent[c].state_generation
        /\ last_received[c].state_hash # state_tracker.latest_hash

\* C12: for a connected agent the remembered hashes change only in the step
\* that processes a successful response from it: connecting, scheduling, a
\* timer firing, a send, a failed response, a state fragment and a
\* configuration change leave every connection's remembered hashes as they
\* are.
C12_RememberedHashesFrame ==
    [][\A c \in Conns :
          (/\ c \in connections'
           /\ LastReceived(last_received', c) # LastReceived(last_received, c))
              => Answered(c)]_vars

\* A failed response has been processed for a connection that had
\* acknowledged earlier generations, and those are still remembered.
C12_Witness ==
    \E c \in Conns :
        /\ c \in connections
        /\ c \in DOMAIN last_received
        /\ last_received[c] # NoGenerations
        /\ calls[c] = <<>>
        /\ agent[c].configuration_generation # last_received[c].config_hash

\* The delayed call of the batch runs in this step.
BatchFires == timer /\ Len(delayed_calls') < Len(delayed_calls)

AgentHandled(c, i) ==
    /\ Len(calls'[c]) = Len(calls[c])
    /\ i \in 1..Len(calls[c])
    /\ calls[c][i].phase = "sent"
    /\ calls'[c][i].phase # "sent"

\* The four current values of an _AgentLocator.
FourValues(ag) ==
    <<ag.configuration, ag.configuration_generation, ag.state, ag.state_generation>>

\* A full update one of whose objects does not hash to its generation.
BadFullUpdate(cmd) ==
    /\ cmd.kind = "full"
    /\ \/ make_generation_hash(cmd.configuration) # cmd.configuration_generation
       \/ make_generation_hash(cmd.state) # cmd.state_generation

\* C14: when the agent handles a ClusterStatusCommand whose configuration or
\* state does not hash to the generation sent with it, the responder fails,
\* the agent's four current values stay as they were and the convergence
\* callback is not called.
C14_FullUpdateAtomicity ==
    [][\A c \in Conns : \A i \in 1..Len(calls[c]) :
          (AgentHandled(c, i) /\ BadFullUpdate(calls[c][i].cmd)) =>
              /\ calls'[c][i].phase = "error"
              /\ FourValues(agent'[c]) = FourValues(agent[c])
              /\ ~agent'[c].notified]_vars

\* A diff whose start generations are not both the agent's current ones.
StaleDiff(ag, cmd) ==
    /\ cmd.kind = "diff"
    /\ \/ cmd.start_configuration_generation # ag.configuration_generation
       \/ cmd.start_state_generation # ag.state_generation

\* C15: when the agent handles a ClusterStatusDiffCommand whose start
\* configuration generation or start state generation is not its current
\* one, it applies nothing, its four current values stay as they were, the
\* convergence callback is not called, and the response carries its
\* unchanged current hashes.
C15_DiffStartHashCheck ==
    [][\A c \in Conns : \A i \in 1..Len(calls[c]) :
          (AgentHandled(c, i) /\ StaleDiff(agent[c], calls[c][i].cmd)) =>
              /\ ~calls'[c][i].applied
              /\ FourValues(agent'[c]) = FourValues(agent[c])
              /\ ~agent'[c].notified
              /\ calls'[c][i].phase = "ok"
              /\ calls'[c][i].current_configuration_generation =
                    agent[c].configuration_generation
              /\ calls'[c][i].current_state_generation =
                    agent[c].state_generation]_vars

\* The agent has answered a diff that started from its configuration but
\* not from its state, and holds what it held.
C15_Witness ==
    \E c \in Conns :
        /\ Len(calls[c]) = 1
        /\ calls[c][1].phase = "ok"
        /\ ~calls[c][1].applied
        /\ calls[c][1].cmd.kind = "diff"
        /\ calls[c][1].cmd.start_configuration_generation =
              agent[c].configuration_generation
        /\ calls[c][1].cmd.start_state_generation # agent[c].state_generation
        /\ calls[c][1].cmd.state_diff # <<>>
        /\ agent[c].state_generation # NoHash
        /\ calls[c][1].current_state_generation = agent[c].state_generation

\* A diff from the agent's current generations whose patches apply but give
\* a configuration or a state that does not hash to its end generation.
BadEndDiff(ag, cmd) ==
    /\ cmd.kind = "diff"
    /\ cmd.start_configuration_generation = ag.configuration_generation
    /\ cmd.start_state_generation = ag.state_generation
    /\ LET new_configuration == DiffApply(cmd.configuration_diff, ag.configuration)
           new_state == DiffApply(cmd.state_diff, ag.state)
       IN  /\ new_configuration.t # "error"
           /\ new_state.t # "error"
           /\ \/ make_generation_hash(new_configuration) # cmd.configuration_generation
              \/ make_generation_hash(new_state) # cmd.state_generation

\* C16: when the agent handles a ClusterStatusDiffCommand whose start hashes
\* match but whose patched configuration or patched state does not hash to
\* its end generation, the agent's four current values stay as they were
\* and the response carries its unchanged current hashes.
C16_DiffEndHashFailure ==
    [][\A c \in Conns : \A i \in 1..Len(calls[c]) :
          (AgentHandled(c, i) /\ BadEndDiff(agent[c], calls[c][i].cmd)) =>
              /\ FourValues(agent'[c]) = FourValues(agent[c])
              /\ calls'[c][i].phase = "ok"
              /\ calls'[c][i].current_configuration_generation =
                    agent[c].configuration_generation
              /\ calls'[c][i].current_state_generation =
                    agent[c].state_generation]_vars

\* C17: once a connection is lost, with or without an update inflight, the
\* service holds nothing for it: it is not a live connection, not pending,
\* has no remembered generations and no current command.  The broadcasts
\* made afterwards still schedule every live connection, and the pass that
\* follows deals with every connection it finds pending.
C17_DisconnectCleanup ==
    [][/\ \A c \in Conns : conn_state'[c] = "lost" =>
             /\ c \notin connections'
             /\ c \notin pending'
             /\ c \notin DOMAIN last_received'
             /\ c \notin DOMAIN current_command'
       /\ (\E d \in Conns : conn_state[d] = "lost") =>
             /\ (config_gen' # config_gen \/ state_gen' # state_gen) =>
                   (connections \subseteq pending' /\ (connections # {} => timer'))
             /\ (timer /\ ~timer') =>
                   \A c \in pending :
                       \/ Len(calls'[c]) = Len(calls[c]) + 1
                       \/ SendRaised(c)
                       \/ c \in DOMAIN current_command' /\ current_command'[c]]_vars

\* The first connection is lost and the second has since been sent a diff to
\* a configuration saved after it connected.
C17_Witness ==
    /\ conn_state[1] = "lost"
    /\ conn_state[2] = "up"
    /\ config_gen = 1
    /\ Len(calls[2]) = 1
    /\ calls[2][1].cmd.kind = "diff"
    /\ calls[2][1].cmd.configuration_generation = LatestConfigurationHash
    /\ calls[2][1].cmd.start_configuration_generation # LatestConfigurationHash

\* The callRemote of a pending connection raises in this step.
SerializationFails(c) ==
    /\ timer /\ ~timer'
    /\ c \in pending
    /\ c \notin DOMAIN current_command
    /\ raised'[c] = "yes"

\* The first command after a callRemote that raised goes out in this step.
SentAfterFailure(c) ==
    /\ raised[c] = "yes"
    /\ Len(calls'[c]) = Len(calls[c]) + 1

\* C18 as stated: when the callRemote of an update raises, the connection's
\* current command is dropped and its remembered generations stay, and the
\* next command sent to the connection is a full ClusterStatusCommand.
C18_NextIsFullSnapshot ==
    [][\A c \in Conns :
          /\ SerializationFails(c) =>
                /\ c \notin DOMAIN current_command'
                /\ LastReceived(last_received', c) = LastReceived(last_received, c)
          /\ SentAfterFailure(c) => Sent(c).kind = "full"]_vars

\* C18, amended: when the callRemote of an update raises, the connection's
\* current command is dropped and its remembered generations stay, and the
\* next command sent to the connection is chosen as any other: a diff from
\* the remembered generations when the trackers hold both, a full
\* ClusterStatusCommand otherwise.
C18_SerializationFailure ==
    [][\A c \in Conns :
          /\ SerializationFails(c) =>
                /\ c \notin DOMAIN current_command'
                /\ LastReceived(last_received', c) = LastReceived(last_received, c)
          /\ SentAfterFailure(c) =>
                LET last == LastReceived(last_received, c)
                    resident ==
                      /\ get_diff_from_hash_to_latest(config_tracker', last.config_hash).found
                      /\ get_diff_from_hash_to_latest(state_tracker', last.state_hash).found
                IN  /\ Sent(c).kind = (IF resident THEN "diff" ELSE "full")
                    /\ resident =>
                          /\ Sent(c).start_configuration_generation = last.config_hash
                          /\ Sent(c).start_state_generation = last.state_hash]_vars

\* A connection that had acknowledged generations was sent a diff from them
\* as the first command after its callRemote raised.
C18_Witness ==
    \E c \in connections :
        /\ raised[c] = "resent"
        /\ Len(calls[c]) = 1
        /\ calls[c][1].cmd.kind = "diff"
        /\ c \in DOMAIN last_received
        /\ calls[c][1].cmd.start_state_generation = last_received[c].state_hash
        /\ calls[c][1].cmd.start_configuration_generation = last_received[c].config_hash

\* A side's protocol is connected after the step.
SideUpAfter(side, c) ==
    IF side = "control" THEN conn_state'[c] = "up" ELSE agent_up'[c]

\* A side that had heard nothing for a tick or more receives a message in
\* this step and stays connected.
Receives(side, c) ==
    /\ silence[side][c] > 0
    /\ silence'[side][c] = 0
    /\ SideUpAfter(side, c)

\* C19: on either side, the receipt of a message from the peer (a command,
\* a ping, or the response to a command this side sent) leaves the
\* connection's inactivity timeout at 2 * PING_INTERVAL.
C19_AnyMessageResets ==
    [][\A side \in Sides, c \in Conns :
          Receives(side, c) => timeouts'[side][c] = 2 * PING_INTERVAL]_vars

\* C20 as stated: a side that stays connected is never silent for longer
\* than 2 * PING_INTERVAL, since its own timeout aborts the connection when
\* that long has passed, and a connection is aborted once, by one side.
C20_AbortedOnceForTheConnection ==
    [][\A side \in Sides, c \in Conns :
          /\ SideUpAfter(side, c) => silence'[side][c] <= 2 * PING_INTERVAL
          /\ (/\ SideUp(side, c)
              /\ silence[side][c] = 2 * PING_INTERVAL
              /\ ~SideUpAfter(side, c)) => aborted'[side][c] = aborted[side][c] + 1
          /\ aborted'["control"][c] + aborted'["agent"][c] <= 1]_vars

\* C20, amended: a side that stays connected is never silent for longer
\* than 2 * PING_INTERVAL, since its own timeout aborts its end of the
\* connection when that long has passed; each side's timeout aborts at
\* most once.
C20_InactivityAbort ==
    [][\A side \in Sides, c \in Conns :
          /\ SideUpAfter(side, c) => silence'[side][c] <= 2 * PING_INTERVAL
          /\ (/\ SideUp(side, c)
              /\ silence[side][c] = 2 * PING_INTERVAL
              /\ ~SideUpAfter(side, c)) => aborted'[side][c] = aborted[side][c] + 1
          /\ aborted'[side][c] <= 1]_vars

\* A side has been aborted by its own timeout after a silence of
\* 2 * PING_INTERVAL.
C20_Witness ==
    \E side \in Sides, c \in Conns :
        /\ aborted[side][c] = 1
        /\ ~SideUp(side, c)
        /\ silence[side][c] = 2 * PING_INTERVAL
        /\ timeouts[side][c] = Off

\* C21: for a serialized value of any length, Big.toBox leaves it under the
\* keys name.0, name.1, ... numbered from 0 without a gap, each chunk of at
\* most MAX_VALUE_LENGTH bytes, and after Big.fromBox the wrapped fromBox
\* finds exactly the original bytes under name.
C21_ChunkingRoundTrip ==
    /\ bstep \in {"boxed", "unboxed"} =>
          /\ \E n \in 0..MaxBytes : DOMAIN strings.frags = 0..(n - 1)
          /\ \A i \in DOMAIN strings.frags :
                Len(strings.frags[i]) <= MAX_VALUE_LENGTH
    /\ bstep = "unboxed" => (strings.has /\ strings.value = big_value)

\* A set_blockdevice_id command is handled in this step.
OwnershipCalled == answer'.n = answer.n + 1 \/ saved' # saved \/ ownership' # ownership

\* C22: set_blockdevice_id(dataset_id, blockdevice_id) writes the binding
\* when the dataset has none (and every live connection is scheduled for
\* the new configuration); when the recorded binding is the same it succeeds
\* without a save and without scheduling anything; when another binding is
\* recorded it fails with ALREADY_OWNED and the configuration stays.  A
\* call that succeeded leaves the binding it asked for, so repeating it
\* changes nothing.
C22_SetBlockDeviceId ==
    [][OwnershipCalled =>
         LET d == answer'.dataset_id
             b == answer'.blockdevice_id
         IN  /\ answer'.n = answer.n + 1
             /\ d \notin DOMAIN ownership =>
                   /\ answer'.result = "ok"
                   /\ ownership' = MapSet(ownership, d, b)
                   /\ saved' = saved + 1
                   /\ config_gen' # config_gen
                   /\ connections \subseteq pending'
             /\ (d \in DOMAIN ownership /\ ownership[d] = b) =>
                   /\ answer'.result = "ok"
                   /\ UNCHANGED <<ownership, saved, config_gen, pending, timer>>
             /\ (d \in DOMAIN ownership /\ ownership[d] # b) =>
                   /\ answer'.result = "ALREADY_OWNED"
                   /\ UNCHANGED <<ownership, saved, config_gen, pending, timer>>
             /\ answer'.result = "ok" =>
                   (d \in DOMAIN ownership' /\ ownership'[d] = b)]_vars

\* The binding of a dataset was written by the first call, and the second
\* call, for the same binding, succeeded without another save and left
\* nothing scheduled.
C22_Witness ==
    /\ answer.n = 2
    /\ answer.result = "ok"
    /\ saved = 1
    /\ DOMAIN ownership = {answer.dataset_id}
    /\ ownership[answer.dataset_id] = answer.blockdevice_id
    /\ connections # {}
    /\ pending = {}
    /\ ~timer
    /\ \A c \in connections : Len(calls[c]) = 1

\* C23: create_diff(A, B) has no operation when A equals B.
C23_DiffIdentity == (step = "diff" /\ ta = tb) => patch = <<>>

\* create_diff was given a collection and a primitive, each twice.
C23_Witness ==
    /\ step = "diff"
    /\ ta = tb
    /\ patch = <<>>
    /\ ta.t = "rec"
    /\ ta.m["f"].t = "map"
    /\ ta.m["f"].m # NoFields

\* The hashes a tracker can answer for: its latest and those in its window.
Resident(tr) ==
    IF tr.has
    THEN {tr.latest_hash} \cup {tr.queue[i].hash : i \in 1..Len(tr.queue)}
    ELSE {}

\* Every hash a value of the run can have, and the unset one.
KnownHashes ==
    {NoHash} \cup {make_generation_hash(ConfigValue(i)) : i \in 0..MaxConfigGen}
             \cup {make_generation_hash(StateValue(i)) : i \in 0..MaxStateGen}

TrackerAnswers(tr) ==
    /\ \A h \in Resident(tr) :
          LET diff == get_diff_from_hash_to_latest(tr, h)
          IN  /\ diff.found
              /\ DiffApply(diff.changes, h.digest) = tr.latest
    /\ \A h \in KnownHashes \ Resident(tr) :
          ~get_diff_from_hash_to_latest(tr, h).found

\* C24: after any insert_latest calls, the diff a tracker returns for a
\* resident hash takes the value of that hash to the latest value, and a
\* tracker returns no diff exactly for the hashes that are not resident.
C24_TrackerContract ==
    TrackerAnswers(config_tracker) /\ TrackerAnswers(state_tracker)

\* The operations of a patch, as a set.
Ops(changes) == {changes[i] : i \in DOMAIN changes}

IsMapping(x) == x.t \in {"map", "rec"}

\* The operations the rule for mappings and records asks for, for a at
\* path p to become b.
MappingOps(p, a, b) ==
    UNION {Ops(CreateDiffsFor(Append(p, k), a.m[k], b.m[k])) :
              k \in {j \in DOMAIN a.m \cap DOMAIN b.m : a.m[j] # b.m[j]}}
    \cup {SetOp(Append(p, k), b.m[k]) : k \in DOMAIN b.m \ DOMAIN a.m}
    \cup {RemoveKeyOp(p, k) : k \in DOMAIN a.m \ DOMAIN b.m}

\* Where a and b differ in one leaf only: the path to it and its new value.
RECURSIVE LeafChange(_, _)
LeafChange(a, b) ==
    IF a.t = "leaf" /\ b.t = "leaf" /\ a # b
        THEN [ok |-> TRUE, path |-> <<>>, value |-> b]
    ELSE IF IsMapping(a) /\ SameType(a, b) /\ DOMAIN a.m = DOMAIN b.m
            /\ Cardinality({k \in DOMAIN a.m : a.m[k] # b.m[k]}) = 1
        THEN LET k == CHOOSE j \in DOMAIN a.m : a.m[j] # b.m[j]
                 below == LeafChange(a.m[k], b.m[k])
             IN  [ok |-> below.ok, path |-> <<k>> \o below.path,
                  value |-> below.value]
    ELSE [ok |-> FALSE, path |-> <<>>, value |-> NoneValue]

\* C25: for two mappings, or two records of one type, create_diff emits the
\* recursive diff under each common key whose values are unequal, one SET of
\* the new value for each key only the second has, one REMOVE for each key
\* only the first has, and nothing else; the same holds one level down; and
\* two trees that differ in one nested leaf give the single SET of that
\* leaf's full path and new value.
C25_MappingDiffRule ==
    (step = "diff" /\ IsMapping(ta) /\ SameType(ta, tb)) =>
        /\ Ops(patch) = MappingOps(<<>>, ta, tb)
        /\ Len(patch) = Cardinality(MappingOps(<<>>, ta, tb))
        /\ \A k \in DOMAIN ta.m \cap DOMAIN tb.m :
              LET a == ta.m[k]
                  b == tb.m[k]
                  below == CreateDiffsFor(<<k>>, a, b)
              IN  (IsMapping(a) /\ SameType(a, b)) =>
                      /\ Ops(below) = MappingOps(<<k>>, a, b)
                      /\ Len(below) = Cardinality(MappingOps(<<k>>, a, b))
                      /\ Ops(below) \subseteq Ops(patch)
        /\ LeafChange(ta, tb).ok =>
              patch = <<SetOp(LeafChange(ta, tb).path, LeafChange(ta, tb).value)>>

\* The diff of two records that differ in the image of one application,
\* three levels down.
C25_Witness ==
    /\ step = "diff"
    /\ ta.t = "rec"
    /\ LeafChange(ta, tb).ok
    /\ Len(LeafChange(ta, tb).path) = 3
    /\ patch = <<SetOp(<<"f", "a", "image">>, Leaf(2))>>

\* The operations the rule for sets asks for, for a at path p to become b.
SetOps(p, a, b) ==
    {RemoveItemOp(p, x) : x \in a.s \ b.s} \cup {AddOp(p, x) : x \in b.s \ a.s}

\* C26: for two sets at path p create_diff emits one REMOVE(p, x) for each x
\* only the first has and one ADD(p, x) for each x only the second has, and
\* no other operation; p is the root or a field the two trees share.
C26_SetDiffRule ==
    step = "diff" =>
        /\ (ta.t = "set" /\ tb.t = "set") =>
              /\ Ops(patch) = SetOps(<<>>, ta, tb)
              /\ Len(patch) = Cardinality(SetOps(<<>>, ta, tb))
        /\ (IsMapping(ta) /\ SameType(ta, tb)) =>
              \A k \in DOMAIN ta.m \cap DOMAIN tb.m :
                  (ta.m[k].t = "set" /\ tb.m[k].t = "set"
                   /\ DOMAIN ta.m = {k} /\ DOMAIN tb.m = {k}) =>
                      /\ Ops(patch) = SetOps(<<k>>, ta.m[k], tb.m[k])
                      /\ Len(patch) = Cardinality(SetOps(<<k>>, ta.m[k], tb.m[k]))

\* Two sets under a field, each with an item the other lacks and one they
\* share: the patch is one REMOVE and one ADD at that field.
C26_Witness ==
    /\ step = "diff"
    /\ ta.t = "rec"
    /\ tb.t = "rec"
    /\ ta.m["f"].t = "set"
    /\ tb.m["f"].t = "set"
    /\ ta.m["f"].s \cap tb.m["f"].s # {}
    /\ \E x \in ta.m["f"].s \ tb.m["f"].s, y \in tb.m["f"].s \ ta.m["f"].s :
          patch = <<RemoveItemOp(<<"f">>, x), AddOp(<<"f">>, y)>>

\* The positions of a patch that hold a SET of the root.
RootSets(changes) ==
    {i \in DOMAIN changes : changes[i].op = "SET" /\ changes[i].path = <<>>}

\* The operations of a patch before position i, and those after it.
Before(changes, i) == SubSeq(changes, 1, i - 1)
After(changes, i) == SubSeq(changes, i + 1, Len(changes))

\* C27: applying a patch that holds a SET of the root to value v returns
\* what applying the operations after that SET to v returns; the input tree
\* and the operations before the SET have no influence.
C27_RootReplacement ==
    step = "applied" =>
        \A i \in RootSets(patch) :
            out = DiffApply(After(patch, i), patch[i].value)

\* C27, amended: the operations before the SET of the root are still
\* performed on the input tree as they come, and an exception one of them
\* raises is the outcome of the application; when none raises, the outcome
\* is that of applying the operations after the SET to v.
C27_RootReplacementAfterStaging ==
    step = "applied" =>
        \A i \in RootSets(patch) :
            LET staged == ApplyChanges(EvolverProxy(ta), Before(patch, i))
            IN  IF staged.err # "" THEN out = Raised(staged.err)
                ELSE out = DiffApply(After(patch, i), patch[i].value)

\* A write under a key, then the root replaced, then a write into the new
\* root: the outcome is the new root with that last write.
C27_Witness ==
    /\ step = "applied"
    /\ Len(patch) = 3
    /\ RootSets(patch) = {2}
    /\ ApplyChanges(EvolverProxy(ta), Before(patch, 2)).err = ""
    /\ ApplyChanges(EvolverProxy(ta), Before(patch, 2)).children # NoFields
    /\ out.t # "error"
    /\ out # patch[2].value
    /\ out # ta
    /\ out = DiffApply(After(patch, 2), patch[2].value)

\* One operation performed on a tree by itself, with no invariant looked
\* at: the tree with the value at the path written or the key removed, or
\* Raised("missing") where the path does not lead (a record takes writes
\* of its own fields only and gives up none).
RECURSIVE Performed(_, _, _)
Performed(tree, path, c) ==
    IF path = <<>>
        THEN IF c.op = "SET" THEN c.value
             ELSE IF c.op = "REMOVE" /\ c.iskey /\ tree.t = "map"
                 THEN [tree EXCEPT !.m = MapRemove(tree.m, c.key)]
             ELSE Raised("missing")
    ELSE IF ~IsMapping(tree) THEN Raised("missing")
    ELSE IF Len(path) = 1 /\ c.op = "SET"
        THEN IF tree.t = "rec" /\ Head(path) \notin DOMAIN tree.m
             THEN Raised("missing")
             ELSE [tree EXCEPT !.m = MapSet(tree.m, Head(path), c.value)]
    ELSE IF Head(path) \notin DOMAIN tree.m THEN Raised("missing")
    ELSE LET below == Performed(tree.m[Head(path)], Tail(path), c)
         IN  IF below.t = "error" THEN below
             ELSE [tree EXCEPT !.m = MapSet(tree.m, Head(path), below)]

\* The operations of a patch performed one at a time, in order.
RECURSIVE OneAtATime(_, _)
OneAtATime(tree, changes) ==
    IF changes = <<>> \/ tree.t = "error" THEN tree
    ELSE OneAtATime(Performed(tree, Head(changes).path, Head(changes)),
                    Tail(changes))

\* Every record of the tree satisfies the invariant of its class.
RECURSIVE InvariantsHold(_)
InvariantsHold(tree) ==
    /\ tree.t # "error"
    /\ tree.t = "rec" => ClassInvariant(tree.c, tree.m)
    /\ IsMapping(tree) => \A k \in DOMAIN tree.m : InvariantsHold(tree.m[k])
    /\ tree.t = "set" => \A x \in tree.s : InvariantsHold(x)

\* Some tree on the way of the one-at-a-time application breaks an
\* invariant, and the last one breaks none.
ThroughViolation(tree, changes) ==
    /\ InvariantsHold(OneAtATime(tree, changes))
    /\ \E n \in 1..(Len(changes) - 1) :
          LET mid == OneAtATime(tree, SubSeq(changes, 1, n))
          IN  mid.t # "error" /\ ~InvariantsHold(mid)

\* C28: record invariants are checked at commit only; a patch that would
\* pass through a tree breaking an invariant when applied one operation at
\* a time, and whose final tree breaks none, is applied successfully and
\* gives that final tree, whatever the order of its operations.
C28_DeferredInvariants ==
    (step = "applied" /\ ThroughViolation(ta, patch)) =>
        out = OneAtATime(ta, patch)

\* The value a tree holds at a path.
RECURSIVE ValueAt(_, _)
ValueAt(tree, path) ==
    IF path = <<>> THEN tree
    ELSE IF IsMapping(tree) /\ Head(path) \in DOMAIN tree.m
        THEN ValueAt(tree.m[Head(path)], Tail(path))
    ELSE Raised("missing")

\* The last operation of the patch writes a leaf value to a key, and an
\* earlier operation has a path that runs through that key to something
\* below it.
LeafAfterDescendants(changes) ==
    /\ Len(changes) >= 2
    /\ LET last == changes[Len(changes)]
       IN  /\ last.op = "SET"
           /\ last.path # <<>>
           /\ ~HasEvolver(last.value)
           /\ \E i \in 1..(Len(changes) - 1) :
                 /\ Len(changes[i].path) > Len(last.path)
                 /\ SubSeq(changes[i].path, 1, Len(last.path)) = last.path

\* C29: operations take effect in patch order at commit: when a patch whose
\* operations are all staged without an exception writes a leaf value to
\* key k of a node after earlier operations modified descendants under k,
\* the committed tree holds the later written value at k.
C29_PatchOrderAtCommit ==
    (/\ step = "applied"
     /\ LeafAfterDescendants(patch)
     /\ out2.err = "") =>
        /\ out.t # "error"
        /\ ValueAt(out, patch[Len(patch)].path) = patch[Len(patch)].value

\* The segments an operation walks before it acts: all of its path but the
\* last for a SET, all of its path otherwise.
Walked(c) == IF c.op = "SET" THEN SubSeq(c.path, 1, Len(c.path) - 1) ELSE c.path

\* The first segment an operation walks is in the tree the proxy was made of.
InTree(proxy, segment) ==
    IsMapping(proxy.original) /\ segment \in DOMAIN proxy.original.m

\* C30: walking a path, a segment that has a staged child evolver goes to
\* that same child, a segment without one gets a child made of the tree's
\* value there, which stays staged, and a segment that is neither staged
\* nor in the tree makes the walk raise KeyError, the application raise it
\* too, and nothing be performed.
C30_PathWalking ==
    step = "applied" =>
        \A n \in DOMAIN patch :
            LET proxy == ApplyChanges(EvolverProxy(ta), Before(patch, n))
                c == patch[n]
                segment == Head(Walked(c))
                after == ChangeApply(c, proxy)
            IN  (proxy.err = "" /\ Walked(c) # <<>>) =>
                    IF segment \in DOMAIN proxy.children
                        THEN after.err = "" =>
                                after.children[segment] =
                                    ProxyTransform(proxy.children[segment],
                                                   Tail(Walked(c)), c)
                    ELSE IF InTree(proxy, segment)
                        THEN after.err = "" =>
                                /\ segment \in DOMAIN after.children
                                /\ after.children[segment].original =
                                       proxy.original.m[segment]
                    ELSE /\ after = FailedProxy("KeyError")
                         /\ out = Raised("KeyError")
                         /\ out2 = FailedProxy("KeyError")

\* C33: every operation with an empty path in a patch create_diff made is
\* a SET, so applying the patch never fails the assertion of Diff.apply.
C33_AssertionValidity ==
    /\ step \in {"diff", "applied"} =>
          \A i \in DOMAIN patch : patch[i].path = <<>> => patch[i].op = "SET"
    /\ step = "applied" => out # Raised("AssertionError")

\* The hash an agent holds for a value is the hash of that value, or both
\* are unset.
HashOf(value, generation) ==
    IF value = NoneValue THEN generation = NoHash
    ELSE generation = make_generation_hash(value)

\* C35: whatever commands the agent has handled, accepted, rejected or
\* failed, its current configuration hash is the hash of its current
\* configuration and its current state hash is the hash of its current
\* state, both unset at first.
C35_AgentHashConsistency ==
    \A c \in Conns :
        /\ HashOf(agent[c].configuration, agent[c].configuration_generation)
        /\ HashOf(agent[c].state, agent[c].state_generation)

\* A diff command was handled whose state hash did not verify after the
\* configuration was adopted: the agent holds a new configuration next to
\* its old state.
C35_Witness ==
    /\ calls[1] # <<>>
    /\ calls[1][1].phase # "sent"
    /\ calls[1][1].cmd.kind = "diff"
    /\ agent[1].configuration # NoneValue
    /\ agent[1].configuration_generation = calls[1][1].cmd.configuration_generation
    /\ agent[1].state_generation # calls[1][1].cmd.state_generation
    /\ agent[1].state_generation # NoHash

\* The controller sends connection c a diff command in this step.
DiffSent(c) ==
    /\ Len(calls'[c]) = Len(calls[c]) + 1
    /\ calls'[c][Len(calls'[c])].cmd.kind = "diff"

\* C32: a diff command goes out with the connection's last acknowledged
\* hashes as its start hashes and the trackers' latest hashes as its end
\* hashes; and an agent that handles a diff command while its current
\* hashes equal the start hashes adopts the end hashes, with no bad-hash
\* error.
C32_DiffsVerify ==
    [][\A c \in Conns :
          /\ DiffSent(c) =>
                LET cmd == calls'[c][Len(calls'[c])].cmd
                IN  /\ cmd.start_configuration_generation =
                           LastReceived(last_received, c).config_hash
                    /\ cmd.start_state_generation =
                           LastReceived(last_received, c).state_hash
                    /\ cmd.configuration_generation = config_tracker'.latest_hash
                    /\ cmd.state_generation = state_tracker'.latest_hash
          /\ \A i \in 1..Len(calls[c]) :
                (/\ AgentHandled(c, i)
                 /\ calls[c][i].cmd.kind = "diff"
                 /\ calls[c][i].cmd.start_configuration_generation =
                        agent[c].configuration_generation
                 /\ calls[c][i].cmd.start_state_generation =
                        agent[c].state_generation) =>
                    /\ calls'[c][i].phase = "ok"
                    /\ agent'[c].configuration_generation =
                           calls[c][i].cmd.configuration_generation
                    /\ agent'[c].state_generation =
                           calls[c][i].cmd.state_generation
      ]_vars

\* C34: the pending set, the remembered hashes and the inflight commands
\* refer to live connections only, in every reachable state.
C34_BookkeepingOfLiveConnections ==
    /\ pending \subseteq connections
    /\ DOMAIN last_received \subseteq connections
    /\ DOMAIN current_command \subseteq connections

\* The connectionLost of connection c runs in this step.
LossRuns(c) ==
    conn_state[c] \in {"up", "closing"} /\ conn_state'[c] = "lost"

\* C36: whenever a connection's connectionLost runs, the connection is
\* still in the set of connections, also when stopService asked it to
\* close, so disconnected raises nothing and the pinger stop and timeout
\* cancel after it run.
C36_DisconnectedNeverFails ==
    [][\A c \in Conns :
          LossRuns(c) =>
              /\ c \in connections
              /\ disconnect_errors' = disconnect_errors
      ]_vars

\* C37: whenever a connection is pending a delayed call is armed, and once
\* the service is stopped no delayed call is armed.
C37_NoLostWakeUp ==
    /\ pending # {} => timer
    /\ ~running => ~timer

\* The update command of connection c ends in an error in this step and
\* the connection stays connected: its callRemote raises in a send pass, or
\* the failure response of its oldest command arrives.
EndsInError(c) ==
    \/ /\ c \in CanUpdate(pending)
       /\ send_failures' # send_failures
       /\ raised'[c] = "yes"
    \/ /\ conn_state[c] = "up"
       /\ conn_state'[c] = "up"
       /\ calls[c] # <<>>
       /\ Head(calls[c]).phase = "error"
       /\ calls'[c] = Tail(calls[c])

\* C38: an update that ends in an error is retried without any further
\* change: when it ends, the connection is scheduled for another update
\* (it is pending and a delayed call is armed), follow-up or not.
C38_FailedUpdatesRetried ==
    [][\A c \in Conns : EndsInError(c) => (c \in pending' /\ timer')]_vars

\* The acknowledgement of connection c's inflight update, which has a
\* follow-up attached, arrives in this step.
FollowUpResolved(c) ==
    /\ conn_state[c] = "up"
    /\ conn_state'[c] = "up"
    /\ calls[c] # <<>>
    /\ Head(calls[c]).phase = "ok"
    /\ Head(calls[c]).conts > 0
    /\ calls'[c] = Tail(calls[c])

\* The controller sends connection c a command in this step.
CommandSent(c) == Len(calls'[c]) = Len(calls[c]) + 1

\* C39: when an inflight update with a follow-up is acknowledged, the
\* inflight record is gone and the acknowledged hashes are recorded by the
\* time the continuation has scheduled the connection; the remembered
\* hashes change in no other step of a connected agent; and every command
\* is computed from the remembered hashes, so the follow-up starts from the
\* hashes of that acknowledgement.
C39_AcknowledgementBeforeFollowUp ==
    [][\A c \in Conns :
          /\ FollowUpResolved(c) =>
                /\ c \notin DOMAIN current_command'
                /\ c \in DOMAIN last_received'
                /\ last_received'[c] = Acknowledged(Head(calls[c]))
                /\ c \in pending'
                /\ timer'
          /\ (/\ c \in DOMAIN last_received
              /\ c \in DOMAIN last_received'
              /\ last_received'[c] # last_received[c]) =>
                /\ calls[c] # <<>>
                /\ Head(calls[c]).phase = "ok"
                /\ last_received'[c] = Acknowledged(Head(calls[c]))
          /\ CommandSent(c) =>
                calls'[c][Len(calls'[c])].cmd =
                    UpdateCommand(config_tracker', state_tracker',
                                  LastReceived(last_received, c))
      ]_vars

\* A follow-up is out: a diff command that starts from the hashes the
\* agent acknowledged and ends at a later configuration.
C39_Witness ==
    \E c \in Conns :
        /\ followup[c] = "sent"
        /\ Len(calls[c]) = 1
        /\ calls[c][1].phase = "sent"
        /\ calls[c][1].cmd.kind = "diff"
        /\ c \in DOMAIN last_received
        /\ last_received[c].config_hash # NoHash
        /\ calls[c][1].cmd.start_configuration_generation =
               last_received[c].config_hash
        /\ calls[c][1].cmd.configuration_generation #
               last_received[c].config_hash

\* Nothing is scheduled, nothing is being sent and no update is inflight.
Settled == Quiescent /\ current_command = NoFields

\* One of the steps the service takes on its own can be taken: a delayed
\* call is armed, an agent has a command to handle, or a response is
\* waiting for the controller.
CanStep ==
    \/ timer
    \/ \E c \in Conns : conn_state[c] = "up" /\ Unhandled(c) # {}
    \/ \E c \in Conns :
          /\ conn_state[c] = "up"
          /\ calls[c] # <<>>
          /\ Head(calls[c]).phase # "sent"

\* C40: quiescence: counted from the last event from outside (a changed
\* configuration, a state report, an agent connecting or lost), the
\* controller and its agents take fewer than MaxSettleSteps steps on their
\* own; as long as a batch timer is armed, a connection is pending or an
\* update is inflight one more such step can be taken; and once no timer
\* is armed, no connection is pending and no update is inflight, nothing
\* happens (no command is sent, nothing is scheduled) until the next event
\* from outside.
C40_Quiescence ==
    /\ [](settling < MaxSettleSteps)
    /\ [](~Settled => CanStep)
    /\ [][Settled => (settling' = 0 /\ calls' = calls)]_vars

\* The service has settled on its own after the last change, with an agent
\* that has acknowledged the latest hashes.
C40_Witness ==
    /\ Settled
    /\ settling >= 3
    /\ config_gen = env.config
    /\ state_gen = env.state
    /\ \E c \in connections :
          /\ c \in DOMAIN last_received
          /\ last_received[c] = [config_hash |-> LatestConfigurationHash,
                                 state_hash |-> LatestStateHash]

\* Both protocols of the connection are connected and what either sends
\* reaches the other.
Healthy(c) ==
    /\ link[c] = "ok"
    /\ SideUp("control", c)
    /\ SideUp("agent", c)

====
